---- MODULE Spec2Model ----
(***************************************************************************)
(* PDFsig: signature extraction and placement.                             *)
(*                                                                         *)
(* The repository holds three revisions of AppComponent.  Two of them      *)
(* (the fixed-threshold and the spiral revision) share the same placement  *)
(* code; the histogram revision differs in placeSignatureOnClick, in       *)
(* onFileSelected and has no placement mode.  The variable `variant`       *)
(* selects the revision a behaviour runs.                                  *)
(*                                                                         *)
(* JavaScript numbers are modelled as exact rationals <<num, den>> in      *)
(* lowest terms with den > 0, so that equalities between computed values   *)
(* are decided by the arithmetic and not by the representation.            *)
(***************************************************************************)
EXTENDS Integers, Sequences, FiniteSets, TLC

(***************************************************************************)
(* Bounds of the model                                                     *)
(***************************************************************************)
MaxSigs == 2         \* most instances held by the store
MaxClock == 2        \* largest value read from Date.now()
MaxCoord == 300      \* positions stay within [-MaxCoord, MaxCoord]
MaxPending == 1      \* most signature images being processed at once
MaxTimers == 1       \* most zero-delay timers pending at once
MaxLoads == 1        \* most document loads in flight at once
MaxImgW == 3         \* widest image handed to the trimmer
MaxImgH == 2         \* tallest image handed to the trimmer
MaxEvents == 5       \* most events (handler runs) in a behaviour of Spec
MaxEventsMid == 6    \* most events in a behaviour of SpecMid
MaxEventsLong == 7   \* most events in a behaviour of SpecLong
MaxExports == 1      \* most exports in progress at once
MaxEventsExport == 6 \* most events in a behaviour of SpecExport
MaxSegPixels == 3   \* most pixels of an image given to segmentation
MaxPasses == 2      \* most successive segmentations of one image
MaxEventsCrop == 8   \* most events in a behaviour of SpecCrop
MaxRenders == 2      \* most page renders in flight at once
MaxLoadsDoc == 2     \* most document loads in flight at once in SpecDoc
MaxEventsDoc == 5    \* most events in a behaviour of SpecDoc
MaxEventsDocLong == 7 \* most events in a behaviour of SpecDocLong
MaxReplyLen == 5      \* longest text the remote model replies with

(***************************************************************************)
(* Number arithmetic                                                       *)
(***************************************************************************)
Abs(n) == IF n < 0 THEN -n ELSE n

RECURSIVE GCD(_, _)
GCD(a, b) == IF b = 0 THEN a ELSE GCD(b, a % b)

Rat(n, d) ==
  LET s == IF d < 0 THEN -1 ELSE 1
      g == GCD(Abs(n), Abs(d))
  IN  <<(s * n) \div g, (s * d) \div g>>

Int2Rat(n) == <<n, 1>>
RAdd(p, q) == Rat(p[1] * q[2] + q[1] * p[2], p[2] * q[2])
RSub(p, q) == Rat(p[1] * q[2] - q[1] * p[2], p[2] * q[2])
RMul(p, q) == Rat(p[1] * q[1], p[2] * q[2])
RDiv(p, q) == Rat(p[1] * q[2], p[2] * q[1])
RLess(p, q) == p[1] * q[2] < q[1] * p[2]
RLeq(p, q) == p[1] * q[2] <= q[1] * p[2]
RMax(p, q) == IF RLess(p, q) THEN q ELSE p
RAbs(p) == <<Abs(p[1]), p[2]>>

NULL == [null |-> TRUE]

(***************************************************************************)
(* Program constants                                                       *)
(***************************************************************************)
MinimumWidth == 20
PlacementFraction == <<3, 20>>       \* 0.15
PlacementFractionH == <<1, 5>>       \* 0.20, histogram revision

(***************************************************************************)
(* Inputs                                                                  *)
(***************************************************************************)
Variants == {"threshold", "histogram"}
\* Pointer positions <<clientX, clientY>> of mouse and touch events.
Pointers == {<<100, 100>>, <<300, 140>>}
\* Displayed width of the page canvas (canvas.offsetWidth).
DisplayWidths == {100, 800}
\* Files offered to the file input: MIME type, and what pdf.js makes of them.
InputFiles ==
  { [name |-> "a.pdf", type |-> "application/pdf", numPages |-> 2, valid |-> TRUE],
    [name |-> "bad.pdf", type |-> "application/pdf", numPages |-> 0, valid |-> FALSE],
    [name |-> "a.png", type |-> "image/png", numPages |-> 0, valid |-> FALSE] }
\* The files offered where loads are followed: a one-page document too.
DocFiles ==
  InputFiles \cup
    { [name |-> "b.pdf", type |-> "application/pdf", numPages |-> 1,
       valid |-> TRUE] }
ViewerRect == [left |-> 0, top |-> 0]
ScrollOffsets == {[left |-> 0, top |-> 0]}

\* Pixel <<r, g, b, a>>
Ink == <<0, 0, 0, 255>>
Faint == <<0, 0, 0, 10>>
Clear == <<0, 0, 0, 0>>

\* Decoded signature images: width, height, row-major pixels.
SignatureImages ==
  { [width |-> 4, height |-> 2,
     data |-> <<Clear, Clear, Clear, Clear, Clear, Clear, Clear, Clear>>],
    [width |-> 4, height |-> 2,
     data |-> <<Clear, Clear, Clear, Clear, Clear, Ink, Faint, Ink>>],
    [width |-> 4, height |-> 2,
     data |-> <<Clear, Clear, Ink, Clear, Clear, Clear, Clear, Clear>>],
    [width |-> 0, height |-> 0, data |-> <<>>] }

EmptyDataUrl == [width |-> 0, height |-> 0, data |-> <<>>]

VARIABLES
  variant, pageOffsetWidth, trimInput, trimResult, horizon, tracked,
  isLoading, pdfPage, canvasPage, pendingRenders, pdfJs, gemini,
  pdfFile, pdfDoc, currentPage, totalPages,
  signatureDataUrl, trimmedSignatureSize, placedSignatures,
  isPlacingSignature,
  draggedSignature, resizingSignature, interactionOccurred,
  pendingResets, pendingFinalize, pendingLoads,
  exportJobs, download,
  isCropping, croppingImageUrl, originalImageForCrop, croppingCanvas,
  cropStartPos, cropEndPos, isDrawingCrop, cropJobs,
  clock, lastOp, events

vars == <<variant, pageOffsetWidth, trimInput, trimResult, horizon, tracked,
          isLoading, pdfPage, canvasPage, pendingRenders, pdfJs, gemini,
          pdfFile, pdfDoc, currentPage, totalPages,
          signatureDataUrl, trimmedSignatureSize, placedSignatures,
          isPlacingSignature,
          draggedSignature, resizingSignature, interactionOccurred,
          pendingResets, pendingFinalize, pendingLoads,
          exportJobs, download,
          isCropping, croppingImageUrl, originalImageForCrop, croppingCanvas,
          cropStartPos, cropEndPos, isDrawingCrop, cropJobs,
          clock, lastOp, events>>

docVars == <<pdfFile, pdfDoc, currentPage, totalPages, pendingLoads>>
maskVars == <<signatureDataUrl, trimmedSignatureSize, isPlacingSignature>>
mountVars == <<variant, pageOffsetWidth, trimInput, trimResult, horizon,
               tracked, gemini>>
renderVars == <<pdfPage, canvasPage, pendingRenders>>
workVars == <<isLoading, renderVars, pdfJs>>
envVars == <<mountVars, workVars>>
exportVars == <<exportJobs, download>>
cropVars == <<isCropping, croppingImageUrl, originalImageForCrop,
              croppingCanvas, cropStartPos, cropEndPos, isDrawingCrop,
              cropJobs>>
gestureVars == <<draggedSignature, resizingSignature, interactionOccurred,
                 pendingResets>>

\* The canvas shows the current page: pageOffsetWidth[p] is the displayed
\* width of the canvas (canvas.offsetWidth) while page p is rendered on it.
offsetWidth == pageOffsetWidth[currentPage]

\* A layout that shows every page at one width.
FixedLayout(width) == [p \in 1..2 |-> width]

Op(name, x, y, arg) == [op |-> name, x |-> x, y |-> y, arg |-> arg]

\* One more handler has run: lastOp records which, with its pointer
\* position or argument and its outcome.  A behaviour holds at most
\* `horizon` events.
Event(name, x, y, arg) ==
  /\ events < horizon
  /\ events' = events + 1
  /\ lastOp' = Op(name, x, y, arg)

\* No cropping session: the fields as declared.
CropClosed ==
  /\ isCropping = FALSE
  /\ croppingImageUrl = NULL
  /\ originalImageForCrop = NULL
  /\ croppingCanvas = NULL
  /\ cropStartPos = NULL
  /\ cropEndPos = NULL
  /\ isDrawingCrop = FALSE
  /\ cropJobs = <<>>

\* The static pdfJsInitPromise is null, window.pdfjsLib is not there yet:
\* no promise made or handed out, workerSrc never assigned, no poll
\* scheduled.
PdfJsUnused ==
  [promise |-> "none", pdfjsLib |-> FALSE, made |-> 0, received |-> {},
   workerSrc |-> 0, timers |-> 0]

\* Nothing in progress, nothing rendered.
WorkIdle ==
  /\ isLoading = FALSE
  /\ pdfPage = NULL
  /\ canvasPage = NULL
  /\ pendingRenders = <<>>
  /\ pdfJs = PdfJsUnused

(***************************************************************************)
(* GeminiService.removeBackground                                          *)
(***************************************************************************)
\* Strings are sequences of one-character strings.
Letters ==
  { "A", "B", "C", "D", "E", "F", "G", "H", "I", "J", "K", "L", "M", "N",
    "O", "P", "Q", "R", "S", "T", "U", "V", "W", "X", "Y", "Z", "a", "b",
    "c", "d", "e", "f", "g", "h", "i", "j", "k", "l", "m", "n", "o", "p",
    "q", "r", "s", "t", "u", "v", "w", "x", "y", "z" }
Digits == { "0", "1", "2", "3", "4", "5", "6", "7", "8", "9" }
\* \s, \w and the class [A-Za-z0-9+/=] of the regular expressions.
WhitespaceChars == { " ", "\n", "\t", "\r" }
WordChars == Letters \cup Digits \cup { "_" }
Base64Chars == Letters \cup Digits \cup { "+", "/", "=" }

DataImage == <<"d", "a", "t", "a", ":", "i", "m", "a", "g", "e">>
PngPrefix == <<"d", "a", "t", "a", ":", "i", "m", "a", "g", "e", "/", "p", "n", "g", ";", "b", "a", "s", "e", "6", "4", ",">>
DefaultMimeType == <<"i", "m", "a", "g", "e", "/", "p", "n", "g">>
\* The grave accent (U+0060), which a string of this notation cannot hold.
Backtick == "grave accent"
\* The fence of a markdown code block.
Fence == <<Backtick, Backtick, Backtick>>

\* String.prototype.startsWith
StartsWith(s, prefix) ==
  /\ Len(s) >= Len(prefix)
  /\ SubSeq(s, 1, Len(prefix)) = prefix

\* String.prototype.endsWith
EndsWith(s, suffix) ==
  /\ Len(s) >= Len(suffix)
  /\ SubSeq(s, Len(s) - Len(suffix) + 1, Len(s)) = suffix

\* The first position from 'from' on that holds a character of 'chars', or
\* Len(s) + 1.
FirstOf(s, chars, from) ==
  LET hits == { k \in from..Len(s) : s[k] \in chars }
  IN  IF hits = {} THEN Len(s) + 1
      ELSE CHOOSE k \in hits : \A j \in hits : k <= j

\* const [header, base64Data] = url.split(','): the text before the first
\* comma, and the text between the first and the second.
SplitHeader(url) == SubSeq(url, 1, FirstOf(url, {","}, 1) - 1)

SplitData(url) ==
  LET first == FirstOf(url, {","}, 1)
  IN  SubSeq(url, first + 1, FirstOf(url, {","}, first + 1) - 1)

\* !base64Data: undefined, for a URL without a comma, or empty.
NoBase64(url) ==
  \/ FirstOf(url, {","}, 1) > Len(url)
  \/ SplitData(url) = <<>>

\* header.match(/:(.*?);/)?.[1] ?? 'image/png': the text between the first
\* colon that has a semicolon after it and the first semicolon after that
\* colon.
MimeType(header) ==
  LET colons == { k \in 1..Len(header) :
                    /\ header[k] = ":"
                    /\ FirstOf(header, {";"}, k + 1) <= Len(header) }
  IN  IF colons = {} THEN DefaultMimeType
      ELSE LET c == CHOOSE k \in colons : \A j \in colons : k <= j
           IN  SubSeq(header, c + 1, FirstOf(header, {";"}, c + 1) - 1)

\* String.prototype.trim
Trim(s) ==
  LET inked == { k \in 1..Len(s) : s[k] \notin WhitespaceChars }
  IN  IF inked = {} THEN <<>>
      ELSE SubSeq(s, CHOOSE k \in inked : \A j \in inked : k <= j,
                     CHOOSE k \in inked : \A j \in inked : k >= j)

\* The first replace of the reply, /^ fence (?:\w+\n)? /: the opening
\* fence goes, with the word
\* and line break that follow it if there are any.
StripOpeningFence(s) ==
  IF ~StartsWith(s, Fence) THEN s
  ELSE LET rest == SubSeq(s, 4, Len(s))
           others == { k \in 1..Len(rest) : rest[k] \notin WordChars }
           stop == IF others = {} THEN Len(rest) + 1
                   ELSE CHOOSE k \in others : \A j \in others : k <= j
       IN  IF stop > 1 /\ stop <= Len(rest) /\ rest[stop] = "\n"
           THEN SubSeq(rest, stop + 1, Len(rest))
           ELSE rest

\* The second replace of the reply, / fence $/: the closing fence goes.
StripClosingFence(s) ==
  IF EndsWith(s, Fence) THEN SubSeq(s, 1, Len(s) - 3) ELSE s

\* /^[A-Za-z0-9+/=\s]+$/.test(s)
LooksLikeBase64(s) ==
  /\ Len(s) > 0
  /\ \A k \in 1..Len(s) : s[k] \in Base64Chars \cup WhitespaceChars

\* .replace(/\s/g, '') leaving the string as it is.
RemoveWhitespaceNone(s) == s

\* .replace(/\s/g, '')
RemoveWhitespace(s) == SelectSeq(s, LAMBDA c : c \notin WhitespaceChars)

\* The messages of the errors removeBackground throws (in the source they
\* are Russian sentences), and of an error the remote call rejects with.
ClientNotInitialised == "Gemini AI client is not initialised"
InvalidDataUrl == "wrong format of the image data URL"
NoBase64Data == "could not extract base64 data from the URL"
InvalidFormat == "AI returned a wrong data format"
ProcessingFailed == "could not process the signature with AI"
ApiError == "request to the model failed"

\* error.message.includes(the invalid-format text): of the messages above,
\* only InvalidFormat has it.
MentionsInvalidFormat(message) == message = InvalidFormat

ErrorOf(message) == [isError |-> TRUE, message |-> message]

\* The body of the try block once generateContent has resolved with
\* result.text = text: the value returned, or the error thrown.
ParseResponse(text) ==
  LET base64Response == Trim(StripClosingFence(StripOpeningFence(Trim(text))))
  IN  IF ~LooksLikeBase64(base64Response)
      THEN [pc |-> "thrown", value |-> ErrorOf(InvalidFormat)]
      ELSE [pc |-> "returned",
            value |-> PngPrefix \o RemoveWhitespace(base64Response)]

\* The catch block: an Error whose message has the invalid-format text is
\* thrown on as it is, anything else is replaced by the generic error.
Caught(error) ==
  IF error.isError /\ MentionsInvalidFormat(error.message) THEN error
  ELSE ErrorOf(ProcessingFailed)

\* Data URLs handed to removeBackground.
GeminiUrls ==
  { DataImage \o <<"/", "p", "n", "g", ";", "b", "a", "s", "e", "6", "4",
                   ",", "Q", "Q", "=", "=">>,
    DataImage \o <<"/", "j", "p", "e", "g", ";", "x", ",", "Q", ",", "Z">>,
    DataImage \o <<",", "Q">>,
    DataImage \o <<"/", "p", "n", "g", ";", "b", "a", "s", "e", "6", "4",
                   ",">>,
    DataImage \o <<"/", "p", "n", "g">>,
    <<"d", "a", "t", "a", ":", "t", "e", "x", "t", ",", "Q">>,
    <<>> }

\* Characters of the model's reply: base64 characters (a word character
\* and one that is none), whitespace, a grave accent and a character outside
\* every class.
ReplyChars == { "A", "=", " ", "\n", Backtick, "!" }

\* How the remote call settles: with a text, with a result that has no
\* text, with an Error, or with a rejection that is no Error.
TextOutcome(text) == [kind |-> "text", text |-> text]
FailedOutcomes ==
  { [kind |-> "noText"], [kind |-> "error"], [kind |-> "notAnError"] }

\* The service as constructed: ai is set when API_KEY is.  Of an
\* invocation it holds the URL given, the request sent and how many were
\* sent, how the remote call settled, and the value returned or thrown.
GeminiService(hasKey) ==
  [ai |-> hasKey, pc |-> "idle", input |-> <<>>, request |-> NULL,
   calls |-> 0, reply |-> NULL, value |-> NULL]

\* No invocation of the service in the behaviour.
GeminiUnused == gemini = GeminiService(FALSE)

GeminiThrows(url, message) ==
  [gemini EXCEPT !.pc = "thrown", !.input = url, !.request = NULL,
                 !.calls = 0, !.reply = NULL, !.value = ErrorOf(message)]

\* removeBackground up to its await: the checks, then the one call of
\* generateContent.  The service keeps nothing from one invocation to the
\* next, so a behaviour follows one.
removeBackground(url) ==
  /\ gemini.pc = "idle"
  /\ gemini' =
       IF ~gemini.ai THEN GeminiThrows(url, ClientNotInitialised)
       ELSE IF ~StartsWith(url, DataImage)
       THEN GeminiThrows(url, InvalidDataUrl)
       ELSE IF NoBase64(url)
       THEN GeminiThrows(url, NoBase64Data)
       ELSE [gemini EXCEPT
               !.pc = "awaiting", !.input = url, !.calls = 1,
               !.reply = NULL, !.value = NULL,
               !.request = [data |-> SplitData(url),
                            mimeType |-> MimeType(SplitHeader(url))]]
  /\ UNCHANGED <<variant, pageOffsetWidth, trimInput, trimResult, horizon,
                 tracked, workVars, exportVars, cropVars, docVars, maskVars,
                 gestureVars, placedSignatures, pendingFinalize, clock,
                 lastOp, events>>

\* What the invocation ends with when generateContent settles as
\* outcome.
Settled(outcome) ==
  LET done ==
        IF outcome.kind = "text"
        THEN LET parsed == ParseResponse(outcome.text)
             IN  IF parsed.pc = "thrown"
                 THEN [parsed EXCEPT !.value = Caught(parsed.value)]
                 ELSE parsed
        ELSE [pc |-> "thrown",
              value |-> Caught(IF outcome.kind = "notAnError"
                               THEN [isError |-> FALSE, message |-> ""]
                               ELSE ErrorOf(ApiError))]
  IN  [gemini EXCEPT !.pc = done.pc, !.reply = outcome,
                     !.value = done.value]

\* removeBackground from the resumption of its await to its end, for
\* every way the remote call settles.
generateContentSettled ==
  /\ gemini.pc = "awaiting"
  /\ \/ \E n \in 0..MaxReplyLen :
          \E text \in [1..n -> ReplyChars] :
            gemini' = Settled(TextOutcome(text))
     \/ \E outcome \in FailedOutcomes : gemini' = Settled(outcome)
  /\ UNCHANGED <<variant, pageOffsetWidth, trimInput, trimResult, horizon,
                 tracked, workVars, exportVars, cropVars, docVars, maskVars,
                 gestureVars, placedSignatures, pendingFinalize, clock,
                 lastOp, events>>

(***************************************************************************)
(* The component                                                           *)
(***************************************************************************)
\* isLoading.set(b).  Behaviours with tracked = FALSE leave the
\* renderer's asynchronous work out: isLoading, the renders and the
\* library's initialisation keep their first values there.
Loading(b) == isLoading' = IF tracked THEN b ELSE isLoading

\* initializePdfJs without the test of the static field: every call makes
\* a promise.
InitializePdfJsUnguarded(js) ==
  LET made == js.made + 1
  IN  IF js.pdfjsLib
      THEN [js EXCEPT !.promise = "resolved", !.made = made,
                      !.received = @ \cup {made}, !.workerSrc = @ + 1]
      ELSE [js EXCEPT !.promise = "pending", !.made = made,
                      !.received = @ \cup {made}, !.timers = @ + 1]

\* initializePdfJs: the caller receives the promise of the static field,
\* made by the first call.  Making it runs checkLibrary once, which assigns
\* workerSrc and resolves when window.pdfjsLib is there and else schedules
\* itself in 100 ms.
InitializePdfJs(js) ==
  IF js.promise # "none"
  THEN [js EXCEPT !.received = @ \cup {js.made}]
  ELSE LET made == js.made + 1
       IN  IF js.pdfjsLib
           THEN [js EXCEPT !.promise = "resolved", !.made = made,
                           !.received = @ \cup {made}, !.workerSrc = @ + 1]
           ELSE [js EXCEPT !.promise = "pending", !.made = made,
                           !.received = @ \cup {made}, !.timers = @ + 1]

\* renderCurrentPage up to its first await, called with pdfDoc = doc and
\* currentPage = pageNum: it returns at once without a document.
RenderStarts(doc, pageNum) ==
  IF tracked /\ doc # NULL
  THEN /\ Len(pendingRenders) < MaxRenders
       /\ isLoading' = TRUE
       /\ pendingRenders' =
            Append(pendingRenders,
                   [doc |-> doc, page |-> pageNum, pc |-> "getPage"])
  ELSE UNCHANGED <<isLoading, pendingRenders>>

\* Most loads in flight at once.
LoadLimit == IF tracked THEN MaxLoadsDoc ELSE MaxLoads

\* The component as constructed, before any event.
Constructed ==
  /\ CropClosed
  /\ WorkIdle
  /\ pdfFile = NULL
  /\ pdfDoc = NULL
  /\ currentPage = 1
  /\ totalPages = 0
  /\ signatureDataUrl = NULL
  /\ trimmedSignatureSize = NULL
  /\ placedSignatures = <<>>
  /\ isPlacingSignature = FALSE
  /\ draggedSignature = NULL
  /\ resizingSignature = NULL
  /\ interactionOccurred = FALSE
  /\ pendingResets = 0
  /\ pendingFinalize = <<>>
  /\ pendingLoads = <<>>
  /\ exportJobs = <<>>
  /\ download = NULL
  /\ clock = 1
  /\ lastOp = Op("init", 0, 0, "")
  /\ events = 0

\* A revision of the component, mounted on a page of some displayed width.
Mounted ==
  /\ variant \in Variants
  /\ pageOffsetWidth \in { FixedLayout(w) : w \in DisplayWidths }
  /\ trimInput = NULL
  /\ trimResult = NULL
  /\ tracked = FALSE
  /\ GeminiUnused
  /\ Constructed

Init ==
  /\ Mounted
  /\ horizon = MaxEvents

\* One displayed width, followed over longer behaviours.
InitMid ==
  /\ Mounted
  /\ pageOffsetWidth = FixedLayout(800)
  /\ horizon = MaxEventsMid

\* The same component followed over still longer behaviours.
InitLong ==
  /\ Mounted
  /\ horizon = MaxEventsLong

(***************************************************************************)
(* Bounding-box trimming                                                   *)
(***************************************************************************)
Min(a, b) == IF a < b THEN a ELSE b
Max(a, b) == IF a > b THEN a ELSE b

\* The inner loop of the scan taking every pixel, whatever its alpha.
RECURSIVE ScanRowAnyAlpha(_, _, _, _)
ScanRowAnyAlpha(img, y, x, box) ==
  IF x >= img.width THEN box
  ELSE LET next ==
             IF img.data[(y * img.width + x) + 1][4] >= 0
             THEN [minX |-> Min(box.minX, x), minY |-> Min(box.minY, y),
                   maxX |-> Max(box.maxX, x), maxY |-> Max(box.maxY, y)]
             ELSE box
       IN  IF next = box THEN ScanRowAnyAlpha(img, y, x + 1, box)
           ELSE ScanRowAnyAlpha(img, y, x + 1, next)

\* The inner loop of the scan of processSignatureImage: row y from column
\* x on, extending box by every pixel with alpha > 0.  (Each step compares
\* the box it has computed before it goes on, so that the box is a value
\* by then.)
RECURSIVE ScanRow(_, _, _, _)
ScanRow(img, y, x, box) ==
  IF x >= img.width THEN box
  ELSE LET next ==
             IF img.data[(y * img.width + x) + 1][4] > 0
             THEN [minX |-> Min(box.minX, x), minY |-> Min(box.minY, y),
                   maxX |-> Max(box.maxX, x), maxY |-> Max(box.maxY, y)]
             ELSE box
       IN  IF next = box THEN ScanRow(img, y, x + 1, box)
           ELSE ScanRow(img, y, x + 1, next)

\* The outer loop: the rows from y on.
RECURSIVE ScanBox(_, _, _)
ScanBox(img, y, box) ==
  IF y >= img.height THEN box
  ELSE LET next == ScanRow(img, y, 0, box)
       IN  IF next = box THEN ScanBox(img, y + 1, box)
           ELSE ScanBox(img, y + 1, next)

\* drawImage(tempCanvas, minX, minY, w, h, 0, 0, w, h) on a fresh w x h canvas.
CropImage(img, minX, minY, w, h) ==
  [width |-> w, height |-> h,
   data |-> [k \in 1..(w * h) |->
               img.data[((minY + ((k - 1) \div w)) * img.width
                         + minX + ((k - 1) % w)) + 1]]]

\* processSignatureImage taking maxX - minX for the trimmed width.
processSignatureImageNarrow(img) ==
  LET box == ScanBox(img, 0, [minX |-> img.width, minY |-> img.height,
                              maxX |-> -1, maxY |-> -1])
  IN  IF box.maxX = -1
      THEN [dataUrl |-> EmptyDataUrl, width |-> 0, height |-> 0]
      ELSE LET trimmedWidth == Max(box.maxX - box.minX, 1)
               trimmedHeight == box.maxY - box.minY + 1
           IN  [dataUrl |-> CropImage(img, box.minX, box.minY,
                                      trimmedWidth, trimmedHeight),
                width |-> trimmedWidth, height |-> trimmedHeight]

processSignatureImage(img) ==
  LET box == ScanBox(img, 0, [minX |-> img.width, minY |-> img.height,
                              maxX |-> -1, maxY |-> -1])
  IN  IF box.maxX = -1
      THEN [dataUrl |-> EmptyDataUrl, width |-> 0, height |-> 0]
      ELSE LET trimmedWidth == box.maxX - box.minX + 1
               trimmedHeight == box.maxY - box.minY + 1
           IN  [dataUrl |-> CropImage(img, box.minX, box.minY,
                                      trimmedWidth, trimmedHeight),
                width |-> trimmedWidth, height |-> trimmedHeight]

\* JavaScript truthiness of a string-or-null / object-or-null signal value.
Truthy(v) == v # NULL /\ v # EmptyDataUrl

\* The service alone, with and without its API key.
InitGemini ==
  /\ variant = "threshold"
  /\ pageOffsetWidth = FixedLayout(800)
  /\ trimInput = NULL
  /\ trimResult = NULL
  /\ horizon = 0
  /\ tracked = FALSE
  /\ gemini \in { GeminiService(hasKey) : hasKey \in BOOLEAN }
  /\ Constructed

NextGemini ==
  \/ \E url \in GeminiUrls : removeBackground(url)
  \/ generateContentSettled

SpecGemini == InitGemini /\ [][NextGemini]_vars

(***************************************************************************)
(* Signature capture                                                       *)
(***************************************************************************)
\* saveSignature up to its await: the pad's PNG is handed to
\* finalizeSignature, which suspends on the image decode.
saveSignature(img) ==
  /\ Len(pendingFinalize) < MaxPending
  /\ pendingFinalize' = Append(pendingFinalize, img)
  /\ Event("saveSignature", 0, 0, "")
  /\ Loading(TRUE)
  /\ UNCHANGED <<mountVars, renderVars, pdfJs, exportVars, cropVars,
                 docVars, maskVars, gestureVars, placedSignatures,
                 clock>>

\* RemoveAt leaving the sequence as it is.
RemoveAtNone(seq, i) == seq

RemoveAt(seq, i) == SubSeq(seq, 1, i - 1) \o SubSeq(seq, i + 1, Len(seq))

\* What finalizeSignature does with a decoded image: throw on an empty
\* trim, else the new mask.
FinalizeOutcome(img) ==
  LET processed == processSignatureImage(img)
  IN  IF processed.width = 0
      THEN [error |-> "EmptyContent"]
      ELSE [error |-> "",
            dataUrl |-> processed.dataUrl,
            size |-> [width |-> processed.width,
                      height |-> processed.height,
                      aspectRatio |-> Rat(processed.width, processed.height)]]

\* RescaleAll rewriting the heights and leaving each instance's aspectRatio.
RescaleAllHeightOnly(sigs, newAspectRatio) ==
  [i \in 1..Len(sigs) |->
     [sigs[i] EXCEPT !.height = RDiv(sigs[i].width, newAspectRatio)]]

\* RescaleAll deriving the height from the instance's previous ratio.
RescaleAllStale(sigs, newAspectRatio) ==
  [i \in 1..Len(sigs) |->
     [sigs[i] EXCEPT !.aspectRatio = newAspectRatio,
                     !.height = RDiv(sigs[i].width, sigs[i].aspectRatio)]]

RescaleAll(sigs, newAspectRatio) ==
  [i \in 1..Len(sigs) |->
     [sigs[i] EXCEPT !.aspectRatio = newAspectRatio,
                     !.height = RDiv(sigs[i].width, newAspectRatio)]]

\* finalizeSignature from the resumption of its await to its end, for the
\* i-th image in flight; decoded = FALSE is img.onerror.
finalizeSignature(i, decoded) ==
  /\ i \in 1..Len(pendingFinalize)
  /\ pendingFinalize' = RemoveAt(pendingFinalize, i)
  /\ IF ~decoded
     THEN /\ Event("finalizeSignature", 0, 0, "DecodeFailure")
          /\ UNCHANGED <<maskVars, placedSignatures>>
     ELSE LET out == FinalizeOutcome(pendingFinalize[i])
          IN  IF out.error # ""
              THEN /\ Event("finalizeSignature", 0, 0, out.error)
                   /\ UNCHANGED <<maskVars, placedSignatures>>
              ELSE /\ signatureDataUrl' = out.dataUrl
                   /\ trimmedSignatureSize' = out.size
                   /\ isPlacingSignature' =
                        IF variant = "histogram" THEN isPlacingSignature
                        ELSE TRUE
                   /\ placedSignatures' =
                        RescaleAll(placedSignatures, out.size.aspectRatio)
                   /\ Event("finalizeSignature", 0, 0, "ok")
  /\ Loading(FALSE)
  /\ UNCHANGED <<mountVars, renderVars, pdfJs, exportVars, cropVars, docVars,
                 gestureVars, clock>>

(***************************************************************************)
(* Placement store                                                         *)
(***************************************************************************)
InBounds(pos) ==
  /\ RLeq(RAbs(pos.x), Int2Rat(MaxCoord))
  /\ RLeq(RAbs(pos.y), Int2Rat(MaxCoord))

\* NewSignature putting the instance's corner, not its centre, half a
\* width from the pointer in both axes.
NewSignatureOffCentre(now, page, finalX, finalY, fraction, sizeInfo) ==
  LET defaultWidth == RMul(Int2Rat(offsetWidth), fraction)
      defaultHeight == RDiv(defaultWidth, sizeInfo.aspectRatio)
  IN  [id |-> now,
       page |-> page,
       position |-> [x |-> RSub(Int2Rat(finalX), RDiv(defaultWidth, Int2Rat(2))),
                     y |-> RSub(Int2Rat(finalY), RDiv(defaultWidth, Int2Rat(2)))],
       width |-> defaultWidth,
       height |-> defaultHeight,
       aspectRatio |-> sizeInfo.aspectRatio]

NewSignature(now, page, finalX, finalY, fraction, sizeInfo) ==
  LET defaultWidth == RMul(Int2Rat(offsetWidth), fraction)
      defaultHeight == RDiv(defaultWidth, sizeInfo.aspectRatio)
  IN  [id |-> now,
       page |-> page,
       position |-> [x |-> RSub(Int2Rat(finalX), RDiv(defaultWidth, Int2Rat(2))),
                     y |-> RSub(Int2Rat(finalY), RDiv(defaultHeight, Int2Rat(2)))],
       width |-> defaultWidth,
       height |-> defaultHeight,
       aspectRatio |-> sizeInfo.aspectRatio]

\* Whether the click passes the guards of placeSignatureOnClick.
PlacementAccepted(onWrapper) ==
  /\ ~interactionOccurred
  /\ ~onWrapper
  /\ IF variant = "histogram"
     THEN /\ Truthy(signatureDataUrl)
          /\ draggedSignature = NULL
          /\ Truthy(trimmedSignatureSize)
     ELSE /\ isPlacingSignature
          /\ Truthy(signatureDataUrl)
          /\ Truthy(trimmedSignatureSize)

\* A click on the viewer at client position (clientX, clientY); onWrapper
\* tells whether the click target lies inside a signature wrapper (or the
\* page controls); now is the value Date.now() returns.
placeSignatureOnClick(clientX, clientY, scroll, onWrapper, now) ==
  LET finalX == (clientX - ViewerRect.left) + scroll.left
      finalY == (clientY - ViewerRect.top) + scroll.top
      fraction == IF variant = "histogram" THEN PlacementFractionH
                  ELSE PlacementFraction
  IN  /\ IF PlacementAccepted(onWrapper)
         THEN /\ Len(placedSignatures) < MaxSigs
              /\ now >= clock
              /\ clock' = now
              /\ placedSignatures' =
                   Append(placedSignatures,
                          NewSignature(now, currentPage, finalX, finalY,
                                       fraction, trimmedSignatureSize))
              /\ Event("placeSignatureOnClick", finalX, finalY, "placed")
         ELSE /\ now = clock
              /\ Event("placeSignatureOnClick", finalX, finalY, "ignored")
              /\ UNCHANGED <<placedSignatures, clock>>
      /\ UNCHANGED <<envVars, exportVars, cropVars,
                     docVars, maskVars, gestureVars, pendingFinalize>>

FilterOutId(sigs, idToDelete) ==
  SelectSeq(sigs, LAMBDA s : s.id # idToDelete)

deleteSignature(idToDelete) ==
  /\ placedSignatures' = FilterOutId(placedSignatures, idToDelete)
  /\ Event("deleteSignature", idToDelete, 0, "")
  /\ UNCHANGED <<envVars, exportVars, cropVars,
                 docVars, maskVars, gestureVars, pendingFinalize,
                 clock>>

(***************************************************************************)
(* Drag and resize                                                         *)
(***************************************************************************)
Pos(x, y) == [x |-> Int2Rat(x), y |-> Int2Rat(y)]

\* The instance object a gesture holds on to.  Of the captured object the
\* handlers only ever read id and aspectRatio, so the other fields (whose
\* captured values are never read again) are not kept.
Captured(sig) == [id |-> sig.id, aspectRatio |-> sig.aspectRatio]

\* Pointer-down on the body of the i-th instance shown.
dragStart(x, y, i) ==
  /\ i \in 1..Len(placedSignatures)
  /\ interactionOccurred' = TRUE
  /\ draggedSignature' = [signature |-> Captured(placedSignatures[i]),
                          startPos |-> placedSignatures[i].position,
                          eventStartPos |-> Pos(x, y)]
  /\ Event("dragStart", x, y, "")
  /\ UNCHANGED <<envVars, exportVars, cropVars,
                 docVars, maskVars, resizingSignature, pendingResets,
                 placedSignatures, pendingFinalize, clock>>

\* Pointer-down on the resize handle of the i-th instance shown.
resizeStart(x, y, i) ==
  /\ i \in 1..Len(placedSignatures)
  /\ interactionOccurred' = TRUE
  /\ resizingSignature' = [signature |-> Captured(placedSignatures[i]),
                           startSize |-> [width |-> placedSignatures[i].width,
                                          height |-> placedSignatures[i].height],
                           eventStartPos |-> Pos(x, y)]
  /\ Event("resizeStart", x, y, "")
  /\ UNCHANGED <<envVars, exportVars, cropVars,
                 docVars, maskVars, draggedSignature, pendingResets,
                 placedSignatures, pendingFinalize, clock>>

\* MoveDragged adding the pointer delta to the instance's current position
\* instead of the position captured at pointer-down.
MoveDraggedFromCurrent(sigs, currentDrag, eventPos) ==
  LET dx == RSub(eventPos.x, currentDrag.eventStartPos.x)
      dy == RSub(eventPos.y, currentDrag.eventStartPos.y)
  IN  [k \in 1..Len(sigs) |->
         IF sigs[k].id = currentDrag.signature.id
         THEN [sigs[k] EXCEPT !.position =
                 [x |-> RAdd(sigs[k].position.x, dx),
                  y |-> RAdd(sigs[k].position.y, dy)]]
         ELSE sigs[k]]

MoveDragged(sigs, currentDrag, eventPos) ==
  LET dx == RSub(eventPos.x, currentDrag.eventStartPos.x)
      dy == RSub(eventPos.y, currentDrag.eventStartPos.y)
  IN  [k \in 1..Len(sigs) |->
         IF sigs[k].id = currentDrag.signature.id
         THEN [sigs[k] EXCEPT !.position =
                 [x |-> RAdd(currentDrag.startPos.x, dx),
                  y |-> RAdd(currentDrag.startPos.y, dy)]]
         ELSE sigs[k]]

ResizedWidth(currentResize, eventPos) ==
  LET dx == RSub(eventPos.x, currentResize.eventStartPos.x)
  IN  RMax(Int2Rat(MinimumWidth), RAdd(currentResize.startSize.width, dx))

ResizeTarget(sigs, currentResize, eventPos) ==
  LET newWidth == ResizedWidth(currentResize, eventPos)
      newHeight == RDiv(newWidth, currentResize.signature.aspectRatio)
  IN  [k \in 1..Len(sigs) |->
         IF sigs[k].id = currentResize.signature.id
         THEN [sigs[k] EXCEPT !.width = newWidth, !.height = newHeight]
         ELSE sigs[k]]

SigsInBounds(sigs) ==
  \A k \in 1..Len(sigs) :
     InBounds(sigs[k].position) /\ RLeq(sigs[k].width, Int2Rat(MaxCoord))

\* window:mousemove / window:touchmove
onDrag(x, y) ==
  /\ placedSignatures' =
       IF draggedSignature # NULL
       THEN MoveDragged(placedSignatures, draggedSignature, Pos(x, y))
       ELSE IF resizingSignature # NULL
            THEN ResizeTarget(placedSignatures, resizingSignature, Pos(x, y))
            ELSE placedSignatures
  /\ SigsInBounds(placedSignatures')
  /\ Event("onDrag", x, y,
                  IF draggedSignature # NULL THEN "drag"
                  ELSE IF resizingSignature # NULL THEN "resize" ELSE "idle")
  /\ UNCHANGED <<envVars, exportVars, cropVars,
                 docVars, maskVars, gestureVars, pendingFinalize,
                 clock>>

\* onEndInteraction clearing the drag only.
onEndInteractionDragOnly ==
  /\ pendingResets < MaxTimers
  /\ draggedSignature' = NULL
  /\ pendingResets' = pendingResets + 1
  /\ Event("onEndInteraction", 0, 0,
           IF draggedSignature # NULL THEN "drag"
           ELSE IF resizingSignature # NULL THEN "resize" ELSE "idle")
  /\ UNCHANGED <<envVars, exportVars, cropVars,
                 docVars, maskVars, interactionOccurred, resizingSignature,
                 placedSignatures, pendingFinalize, clock>>

\* window:mouseup / window:touchend; the event records which gesture the
\* pointer-up ended.
onEndInteraction ==
  /\ pendingResets < MaxTimers
  /\ draggedSignature' = NULL
  /\ resizingSignature' = NULL
  /\ pendingResets' = pendingResets + 1
  /\ Event("onEndInteraction", 0, 0,
           IF draggedSignature # NULL THEN "drag"
           ELSE IF resizingSignature # NULL THEN "resize" ELSE "idle")
  /\ UNCHANGED <<envVars, exportVars, cropVars,
                 docVars, maskVars, interactionOccurred,
                 placedSignatures, pendingFinalize, clock>>

\* The callback of setTimeout(..., 0) scheduled by onEndInteraction.  When
\* it runs right after the pointer-up, the event records what that
\* pointer-up ended.
resetInteractionOccurred ==
  /\ pendingResets > 0
  /\ pendingResets' = pendingResets - 1
  /\ interactionOccurred' = FALSE
  /\ Event("resetInteractionOccurred", 0, 0,
           IF lastOp.op = "onEndInteraction" THEN lastOp.arg ELSE "later")
  /\ UNCHANGED <<envVars, exportVars, cropVars,
                 docVars, maskVars, draggedSignature,
                 resizingSignature, placedSignatures, pendingFinalize, clock>>

(***************************************************************************)
(* Document session                                                        *)
(***************************************************************************)
\* resetApp without the line that empties the store.
ResetAppEffectKeepsStore(file) ==
  /\ pdfFile' = file
  /\ pdfDoc' = NULL
  /\ currentPage' = 1
  /\ totalPages' = 0
  /\ signatureDataUrl' = NULL
  /\ UNCHANGED placedSignatures
  /\ trimmedSignatureSize' = NULL
  /\ isPlacingSignature' = FALSE

\* The assignments of resetApp.  pdfFile ends as `file`: NULL for resetApp
\* alone, the chosen file where onFileSelected sets pdfFile right after
\* the reset.
ResetAppEffect(file) ==
  /\ pdfFile' = file
  /\ pdfDoc' = NULL
  /\ currentPage' = 1
  /\ totalPages' = 0
  /\ signatureDataUrl' = NULL
  /\ placedSignatures' = <<>>
  /\ trimmedSignatureSize' = NULL
  /\ isPlacingSignature' = FALSE

\* The reset button (the histogram revision has no resetApp).
resetApp ==
  /\ variant # "histogram"
  /\ ResetAppEffect(NULL)
  /\ pdfPage' = IF tracked THEN NULL ELSE pdfPage
  /\ Event("resetApp", 0, 0, "")
  /\ UNCHANGED <<mountVars, isLoading, canvasPage, pendingRenders, pdfJs,
                 exportVars, cropVars,
                 gestureVars, pendingFinalize, pendingLoads, clock>>

\* The assignments of the histogram revision's onFileSelected before its
\* first await.
SelectFileEffectH(file) ==
  /\ pdfFile' = file
  /\ signatureDataUrl' = NULL
  /\ placedSignatures' = <<>>
  /\ pdfDoc' = NULL
  /\ currentPage' = 1
  /\ totalPages' = 0
  /\ UNCHANGED <<trimmedSignatureSize, isPlacingSignature>>

\* togglePlacementMode without its test of signatureDataUrl.
togglePlacementModeUnguarded ==
  /\ variant # "histogram"
  /\ isPlacingSignature' = ~isPlacingSignature
  /\ Event("togglePlacementMode", 0, 0, "")
  /\ UNCHANGED <<envVars, exportVars, cropVars,
                 docVars, signatureDataUrl, trimmedSignatureSize,
                 gestureVars, placedSignatures, pendingFinalize, clock>>

togglePlacementMode ==
  /\ variant # "histogram"
  /\ isPlacingSignature' =
       IF Truthy(signatureDataUrl) THEN ~isPlacingSignature
       ELSE isPlacingSignature
  /\ Event("togglePlacementMode", 0, 0, "")
  /\ UNCHANGED <<envVars, exportVars, cropVars,
                 docVars, signatureDataUrl, trimmedSignatureSize,
                 gestureVars, placedSignatures, pendingFinalize, clock>>

\* onFileSelected with a file chosen in the input.  In the threshold
\* revision the load effect starts loadPdf for the new pdfFile; in the
\* histogram revision the handler itself goes on to load the document.
onFileSelected(file) ==
  /\ IF file.type # "application/pdf"
     THEN /\ Event("onFileSelected", 0, 0, "rejected")
          /\ UNCHANGED <<docVars, maskVars, placedSignatures, isLoading,
                         pdfPage, pdfJs>>
     ELSE /\ Len(pendingLoads) < LoadLimit
          /\ pendingLoads' = Append(pendingLoads, file)
          /\ Event("onFileSelected", 0, 0, "selected")
          /\ IF variant = "histogram"
             THEN /\ SelectFileEffectH(file)
                  /\ UNCHANGED pdfPage
             ELSE /\ ResetAppEffect(file)
                  /\ pdfPage' = IF tracked THEN NULL ELSE pdfPage
          /\ Loading(TRUE)
          /\ pdfJs' = IF tracked THEN InitializePdfJs(pdfJs) ELSE pdfJs
  /\ UNCHANGED <<mountVars, canvasPage, pendingRenders, exportVars, cropVars,
                 gestureVars, pendingFinalize, clock>>

\* The i-th load in flight completes, once the promise of initializePdfJs
\* has resolved: pdf.js resolves with the document or rejects.  A document
\* that arrives is rendered: by the render effect in the threshold
\* revision, by the handler's own call in the histogram revision.
loadPdfDone(i) ==
  /\ i \in 1..Len(pendingLoads)
  /\ tracked => pdfJs.promise = "resolved"
  /\ pendingLoads' = RemoveAt(pendingLoads, i)
  /\ LET file == pendingLoads[i]
     IN  IF file.valid
         THEN /\ pdfDoc' = file
              /\ totalPages' = file.numPages
              /\ currentPage' = IF variant = "histogram" THEN currentPage ELSE 1
              /\ RenderStarts(file, currentPage')
              /\ Event("loadPdf", 0, 0, "loaded")
              /\ UNCHANGED <<pdfFile, maskVars, placedSignatures, pdfPage>>
         ELSE /\ Event("loadPdf", 0, 0, "failed")
              /\ Loading(FALSE)
              /\ UNCHANGED pendingRenders
              /\ IF variant = "histogram"
                 THEN UNCHANGED <<pdfFile, pdfDoc, currentPage, totalPages,
                                  maskVars, placedSignatures, pdfPage>>
                 ELSE /\ ResetAppEffect(NULL)
                      /\ pdfPage' = IF tracked THEN NULL ELSE pdfPage
  /\ UNCHANGED <<mountVars, canvasPage, pdfJs, exportVars, cropVars,
                 gestureVars, pendingFinalize, clock>>

\* A page change is followed by renderCurrentPage: through the render
\* effect in the threshold revision, by a call in the histogram revision.
goToPreviousPage ==
  /\ currentPage' = IF currentPage > 1 THEN currentPage - 1 ELSE currentPage
  /\ IF currentPage > 1
     THEN RenderStarts(pdfDoc, currentPage')
     ELSE UNCHANGED <<isLoading, pendingRenders>>
  /\ Event("goToPreviousPage", 0, 0, "")
  /\ UNCHANGED <<mountVars, pdfPage, canvasPage, pdfJs, exportVars, cropVars,
                 pdfFile, pdfDoc, totalPages, pendingLoads, maskVars,
                 gestureVars, placedSignatures, pendingFinalize, clock>>

goToNextPage ==
  /\ currentPage' = IF currentPage < totalPages THEN currentPage + 1
                    ELSE currentPage
  /\ IF currentPage < totalPages
     THEN RenderStarts(pdfDoc, currentPage')
     ELSE UNCHANGED <<isLoading, pendingRenders>>
  /\ Event("goToNextPage", 0, 0, "")
  /\ UNCHANGED <<mountVars, pdfPage, canvasPage, pdfJs, exportVars, cropVars,
                 pdfFile, pdfDoc, totalPages, pendingLoads, maskVars,
                 gestureVars, placedSignatures, pendingFinalize, clock>>

(***************************************************************************)
(* Page renders and the renderer library                                   *)
(***************************************************************************)
\* renderCurrentPage from the resumption after getPage to the await of
\* page.render, for the i-th render in flight: the page it asked for
\* becomes pdfPage and the canvas takes the page's size, which clears it.
\* getPage rejects for a page number the document does not have.
renderGetPage(i) ==
  /\ tracked
  /\ i \in 1..Len(pendingRenders)
  /\ pendingRenders[i].pc = "getPage"
  /\ LET job == pendingRenders[i]
     IN  IF job.page \in 1..job.doc.numPages
         THEN /\ pdfPage' = [doc |-> job.doc, page |-> job.page]
              /\ canvasPage' = NULL
              /\ pendingRenders' = [pendingRenders EXCEPT ![i].pc = "render"]
              /\ Event("renderCurrentPage", job.page, 0, "getPage")
              /\ UNCHANGED isLoading
         ELSE /\ pendingRenders' = RemoveAt(pendingRenders, i)
              /\ isLoading' = FALSE
              /\ Event("renderCurrentPage", job.page, 0, "failed")
              /\ UNCHANGED <<pdfPage, canvasPage>>
  /\ UNCHANGED <<mountVars, pdfJs, exportVars, cropVars, docVars, maskVars,
                 gestureVars, placedSignatures, pendingFinalize, clock>>

\* renderCurrentPage from the resumption after page.render to its end: the
\* page is on the canvas, or the library refused to draw (ok = FALSE) and
\* the canvas is left as it was.
renderCurrentPageDone(i, ok) ==
  /\ tracked
  /\ i \in 1..Len(pendingRenders)
  /\ pendingRenders[i].pc = "render"
  /\ LET job == pendingRenders[i]
     IN  /\ canvasPage' = IF ok THEN [doc |-> job.doc, page |-> job.page]
                          ELSE canvasPage
         /\ Event("renderCurrentPage", job.page, 0,
                  IF ok THEN "rendered" ELSE "failed")
  /\ pendingRenders' = RemoveAt(pendingRenders, i)
  /\ isLoading' = FALSE
  /\ UNCHANGED <<mountVars, pdfPage, pdfJs, exportVars, cropVars, docVars,
                 maskVars, gestureVars, placedSignatures, pendingFinalize,
                 clock>>

\* The script of the renderer library has run: window.pdfjsLib is there.
pdfjsLibLoaded ==
  /\ tracked
  /\ ~pdfJs.pdfjsLib
  /\ pdfJs' = [pdfJs EXCEPT !.pdfjsLib = TRUE]
  /\ UNCHANGED <<mountVars, isLoading, renderVars, exportVars, cropVars,
                 docVars, maskVars, gestureVars, placedSignatures,
                 pendingFinalize, clock, lastOp, events>>

\* checkLibrary run by its 100 ms timer: it assigns workerSrc and resolves
\* the promise, or schedules itself again.
checkLibrary ==
  /\ tracked
  /\ pdfJs.timers > 0
  /\ pdfJs' = IF pdfJs.pdfjsLib
              THEN [pdfJs EXCEPT !.timers = @ - 1, !.workerSrc = @ + 1,
                                 !.promise = "resolved"]
              ELSE pdfJs
  /\ UNCHANGED <<mountVars, isLoading, renderVars, exportVars, cropVars,
                 docVars, maskVars, gestureVars, placedSignatures,
                 pendingFinalize, clock, lastOp, events>>

\* The component mounted, its asynchronous work followed.
InitDoc ==
  /\ variant \in Variants
  /\ pageOffsetWidth = FixedLayout(800)
  /\ trimInput = NULL
  /\ trimResult = NULL
  /\ horizon = MaxEventsDoc
  /\ tracked = TRUE
  /\ GeminiUnused
  /\ Constructed

NextDoc ==
  \/ \E file \in DocFiles : onFileSelected(file)
  \/ \E i \in 1..MaxLoadsDoc : loadPdfDone(i)
  \/ pdfjsLibLoaded
  \/ checkLibrary
  \/ goToPreviousPage
  \/ goToNextPage
  \/ \E i \in 1..MaxRenders : renderGetPage(i)
  \/ \E i \in 1..MaxRenders, ok \in BOOLEAN : renderCurrentPageDone(i, ok)
  \/ \E img \in SignatureImages : saveSignature(img)
  \/ \E i \in 1..MaxPending, decoded \in BOOLEAN : finalizeSignature(i, decoded)
  \/ \E p \in Pointers, scroll \in ScrollOffsets,
        onWrapper \in BOOLEAN, now \in 1..MaxClock :
        placeSignatureOnClick(p[1], p[2], scroll, onWrapper, now)
  \/ resetApp

SpecDoc == InitDoc /\ [][NextDoc]_vars

\* The same, followed over longer behaviours.
InitDocLong ==
  /\ variant \in Variants
  /\ pageOffsetWidth = FixedLayout(800)
  /\ trimInput = NULL
  /\ trimResult = NULL
  /\ horizon = MaxEventsDocLong
  /\ tracked = TRUE
  /\ GeminiUnused
  /\ Constructed

SpecDocLong == InitDocLong /\ [][NextDoc]_vars

\* The 100 ms timer of checkLibrary fires as long as it is scheduled.
SpecDocFair == SpecDoc /\ WF_vars(checkLibrary)

(***************************************************************************)
(* Specification                                                           *)
(***************************************************************************)
Next ==
  \/ \E img \in SignatureImages : saveSignature(img)
  \/ \E i \in 1..MaxPending, decoded \in BOOLEAN : finalizeSignature(i, decoded)
  \/ \E p \in Pointers, scroll \in ScrollOffsets,
        onWrapper \in BOOLEAN, now \in 1..MaxClock :
        placeSignatureOnClick(p[1], p[2], scroll, onWrapper, now)
  \/ \E id \in 1..MaxClock : deleteSignature(id)
  \/ \E p \in Pointers, i \in 1..MaxSigs : dragStart(p[1], p[2], i)
  \/ \E p \in Pointers, i \in 1..MaxSigs : resizeStart(p[1], p[2], i)
  \/ \E p \in Pointers : onDrag(p[1], p[2])
  \/ onEndInteraction
  \/ resetInteractionOccurred
  \/ resetApp
  \/ togglePlacementMode
  \/ \E file \in InputFiles : onFileSelected(file)
  \/ \E i \in 1..MaxLoads : loadPdfDone(i)
  \/ goToPreviousPage
  \/ goToNextPage

Spec == Init /\ [][Next]_vars

SpecMid == InitMid /\ [][Next]_vars

SpecLong == InitLong /\ [][Next]_vars

(***************************************************************************)
(* Export: applyAndDownload                                                *)
(***************************************************************************)
pdfRenderScale == <<3, 2>>           \* 1.5

\* Point size of the pages of a document, page 1 first.
PageSizes == << [width |-> 612, height |-> 792],
                [width |-> 400, height |-> 600] >>

\* pdfJsPage.getViewport({ scale }).width
ViewportWidth(pageNum, scale) == RMul(Int2Rat(PageSizes[pageNum].width), scale)

\* toDocumentRect without the display scale factor.
toDocumentRectUnscaled(rect, scaleFactor, renderScale, pageHeightInPoints) ==
  LET pointX == RDiv(rect.x, renderScale)
      pointWidth == RDiv(rect.width, renderScale)
      pointHeight == RDiv(rect.height, renderScale)
      pointY == RSub(RSub(pageHeightInPoints, RDiv(rect.y, renderScale)),
                     pointHeight)
  IN  [x |-> pointX, y |-> pointY, width |-> pointWidth, height |-> pointHeight]

\* toDocumentRect flipping the y-axis about the top edge only.
toDocumentRectTopEdge(rect, scaleFactor, renderScale, pageHeightInPoints) ==
  LET canvasX == RMul(rect.x, scaleFactor)
      canvasY == RMul(rect.y, scaleFactor)
      canvasWidth == RMul(rect.width, scaleFactor)
      pointX == RDiv(canvasX, renderScale)
      pointWidth == RDiv(canvasWidth, renderScale)
      pointY == RSub(pageHeightInPoints, RDiv(canvasY, renderScale))
  IN  [x |-> pointX, y |-> pointY, width |-> pointWidth, height |-> pointWidth]

\* The body of the inner loop of applyAndDownload: the rectangle drawn for
\* a rectangle of the displayed page.
toDocumentRect(rect, scaleFactor, renderScale, pageHeightInPoints) ==
  LET canvasX == RMul(rect.x, scaleFactor)
      canvasY == RMul(rect.y, scaleFactor)
      canvasWidth == RMul(rect.width, scaleFactor)
      canvasHeight == RMul(rect.height, scaleFactor)
      pointX == RDiv(canvasX, renderScale)
      pointWidth == RDiv(canvasWidth, renderScale)
      pointHeight == RDiv(canvasHeight, renderScale)
      pointY == RSub(RSub(pageHeightInPoints, RDiv(canvasY, renderScale)),
                     pointHeight)
  IN  [x |-> pointX, y |-> pointY, width |-> pointWidth, height |-> pointHeight]

RectOf(sig) == [x |-> sig.position.x, y |-> sig.position.y,
                width |-> sig.width, height |-> sig.height]

\* PageOrder adding the page of every instance, seen before or not.
PageOrderRepeats(sigs) == [k \in 1..Len(sigs) |-> sigs[k].page]

\* The keys of signaturesByPage in insertion order: the pages of sigs by
\* first occurrence.
PageOrder(sigs) ==
  LET F[k \in 0..Len(sigs)] ==
        IF k = 0 THEN <<>>
        ELSE IF \E j \in 1..Len(F[k - 1]) : F[k - 1][j] = sigs[k].page
             THEN F[k - 1]
             ELSE Append(F[k - 1], sigs[k].page)
  IN  F[Len(sigs)]

OnPage(sigs, pageNum) == SelectSeq(sigs, LAMBDA s : s.page = pageNum)

\* signaturesByPage.entries()
SignaturesByPage(sigs) ==
  LET pages == PageOrder(sigs)
  IN  [g \in 1..Len(pages) |->
         [page |-> pages[g], signatures |-> OnPage(sigs, pages[g])]]

\* The drawImage calls of one iteration of the outer loop.
DrawGroup(group, image, width) ==
  LET scaleFactor == RDiv(ViewportWidth(group.page, pdfRenderScale),
                          Int2Rat(width))
      pageHeightInPoints == Int2Rat(PageSizes[group.page].height)
  IN  [k \in 1..Len(group.signatures) |->
         [page |-> group.page,
          image |-> image,
          rect |-> toDocumentRect(RectOf(group.signatures[k]), scaleFactor,
                                  pdfRenderScale, pageHeightInPoints)]]

\* A job of applyAndDownload between two of its awaits: pc names the await
\* it is suspended at, file is the pdfFile it loaded, image the mask it
\* embedded, store the placedSignatures it read, groups the entries of
\* signaturesByPage still to be drawn, drawn the drawImage calls made.
NewExportJob(file) ==
  [pc |-> "load", file |-> file, image |-> NULL, store |-> <<>>,
   groups |-> <<>>, drawn |-> <<>>]

\* The guard of applyAndDownload without its test of the store.
ExportRefusedIgnoresStore ==
  \/ pdfFile = NULL
  \/ ~Truthy(signatureDataUrl)

ExportRefused ==
  \/ pdfFile = NULL
  \/ ~Truthy(signatureDataUrl)
  \/ Len(placedSignatures) = 0

\* applyAndDownload up to its first await.
applyAndDownload ==
  /\ IF ExportRefused
     THEN /\ Event("applyAndDownload", 0, 0, "refused")
          /\ UNCHANGED <<exportJobs, isLoading>>
     ELSE /\ Len(exportJobs) < MaxExports
          /\ exportJobs' = Append(exportJobs, NewExportJob(pdfFile))
          /\ Loading(TRUE)
          /\ Event("applyAndDownload", 0, 0, "started")
  /\ UNCHANGED <<mountVars, renderVars, pdfJs, cropVars, download, docVars, maskVars, gestureVars,
                 placedSignatures, pendingFinalize, clock>>

\* The catch block: the job ends with an alert and nothing is downloaded.
ExportFails(i, step) ==
  /\ exportJobs' = RemoveAt(exportJobs, i)
  /\ Event(step, 0, 0, "failed")
  /\ Loading(FALSE)
  /\ UNCHANGED download

ExportGoesOn(i, step, job) ==
  /\ exportJobs' = [exportJobs EXCEPT ![i] = job]
  /\ Event(step, 0, 0, "ok")
  /\ UNCHANGED <<download, isLoading>>

\* Whether this.pdfDoc().getPage(pageNum) can be called and resolve, and
\* pdfDoc.getPages()[pageNum - 1] is a page of the loaded file.
PageAvailable(job, pageNum) ==
  /\ pdfDoc # NULL
  /\ pageNum <= pdfDoc.numPages
  /\ pageNum <= job.file.numPages

\* The job waits for getPage of its next group, or for save when no group
\* is left.
AwaitNextGroup(i, step, job) ==
  IF Len(job.groups) = 0
  THEN ExportGoesOn(i, step, [job EXCEPT !.pc = "save"])
  ELSE IF PageAvailable(job, job.groups[1].page)
       THEN ExportGoesOn(i, step, [job EXCEPT !.pc = "page"])
       ELSE ExportFails(i, step)

\* From the resumption after PDFDocument.load to the await of embedPng:
\* the mask is read from signatureDataUrl.
exportEmbed(i) ==
  /\ i \in 1..Len(exportJobs)
  /\ exportJobs[i].pc = "load"
  /\ IF exportJobs[i].file.valid /\ Truthy(signatureDataUrl)
     THEN ExportGoesOn(i, "exportEmbed",
                       [exportJobs[i] EXCEPT !.pc = "embed",
                                             !.image = signatureDataUrl])
     ELSE ExportFails(i, "exportEmbed")
  /\ UNCHANGED <<mountVars, renderVars, pdfJs, cropVars,
                 docVars, maskVars, gestureVars, placedSignatures,
                 pendingFinalize, clock>>

\* From the resumption after embedPng to the first getPage: the store is
\* read and grouped by page.
exportGroup(i) ==
  /\ i \in 1..Len(exportJobs)
  /\ exportJobs[i].pc = "embed"
  /\ AwaitNextGroup(i, "exportGroup",
                    [exportJobs[i] EXCEPT
                       !.store = placedSignatures,
                       !.groups = SignaturesByPage(placedSignatures)])
  /\ UNCHANGED <<mountVars, renderVars, pdfJs, cropVars,
                 docVars, maskVars, gestureVars, placedSignatures,
                 pendingFinalize, clock>>

\* From the resumption after getPage to the next await: the signatures of
\* one page are drawn.
exportPage(i) ==
  /\ i \in 1..Len(exportJobs)
  /\ exportJobs[i].pc = "page"
  /\ LET job == exportJobs[i]
     IN  AwaitNextGroup(i, "exportPage",
           [job EXCEPT !.groups = Tail(job.groups),
                       !.drawn = job.drawn \o DrawGroup(job.groups[1],
                                                        job.image,
                                                        offsetWidth)])
  /\ UNCHANGED <<mountVars, renderVars, pdfJs, cropVars,
                 docVars, maskVars, gestureVars, placedSignatures,
                 pendingFinalize, clock>>

\* From the resumption after pdfDoc.save() to the end: the signed document
\* is handed to download.
exportSave(i) ==
  /\ i \in 1..Len(exportJobs)
  /\ exportJobs[i].pc = "save"
  /\ download' = [file |-> exportJobs[i].file, store |-> exportJobs[i].store,
                  draws |-> exportJobs[i].drawn]
  /\ exportJobs' = RemoveAt(exportJobs, i)
  /\ Event("exportSave", 0, 0, "downloaded")
  /\ Loading(FALSE)
  /\ UNCHANGED <<mountVars, renderVars, pdfJs, cropVars,
                 docVars, maskVars, gestureVars, placedSignatures,
                 pendingFinalize, clock>>

\* Sessions an export is requested in: a revision, a displayed width, a
\* selected file that is absent, loading, loaded or unreadable, and either
\* no mask and an empty store or a mask of aspect ratio 3 with up to
\* MaxSigs instances placed, moved and resized on the pages shown so far.
ExportDisplayWidths == {918, 800}
\* canvas.width after renderCurrentPage: the viewport width of the page.
RenderedWidth(pageNum) ==
  (PageSizes[pageNum].width * pdfRenderScale[1]) \div pdfRenderScale[2]

\* Layouts of the viewer: the canvas stretched or shrunk to one width for
\* every page, or left at the size renderCurrentPage gives it, which
\* differs between pages of different sizes.
ExportLayouts ==
  { FixedLayout(w) : w \in ExportDisplayWidths } \cup
  { [p \in 1..2 |-> RenderedWidth(p)] }

ExportGeometry == { [x |-> 100, y |-> 50, width |-> 120],
                    [x |-> 40, y |-> 80, width |-> 60] }
ExportMask ==
  FinalizeOutcome(CHOOSE img \in SignatureImages :
                    /\ FinalizeOutcome(img).error = ""
                    /\ FinalizeOutcome(img).size.aspectRatio = <<3, 1>>)

ExportInstance(id, page, g) ==
  [id |-> id, page |-> page,
   position |-> Pos(g.x, g.y),
   width |-> Int2Rat(g.width),
   height |-> RDiv(Int2Rat(g.width), ExportMask.size.aspectRatio),
   aspectRatio |-> ExportMask.size.aspectRatio]

ExportStores(pages) ==
  UNION { { [k \in 1..n |-> ExportInstance(k, c[k][1], c[k][2])] :
              c \in [1..n -> (1..pages) \X ExportGeometry] } :
          n \in 0..MaxSigs }

ExportDocuments ==
  { [file |-> NULL, doc |-> NULL, page |-> 1] } \cup
  { [file |-> f, doc |-> NULL, page |-> 1] :
      f \in {g \in InputFiles : g.type = "application/pdf"} } \cup
  { [file |-> f, doc |-> f, page |-> p] :
      f \in {g \in InputFiles : g.valid}, p \in 1..2 }

InitExport ==
  /\ variant \in Variants
  /\ pageOffsetWidth \in ExportLayouts
  /\ trimInput = NULL
  /\ trimResult = NULL
  /\ horizon = MaxEventsExport
  /\ tracked = FALSE
  /\ GeminiUnused
  /\ WorkIdle
  /\ \E d \in ExportDocuments :
       /\ pdfFile = d.file
       /\ pdfDoc = d.doc
       /\ currentPage = d.page
       /\ totalPages = IF d.doc = NULL THEN 0 ELSE d.doc.numPages
       /\ pendingLoads = IF d.file # NULL /\ d.doc = NULL THEN <<d.file>>
                         ELSE <<>>
       /\ \/ /\ signatureDataUrl = NULL
             /\ trimmedSignatureSize = NULL
             /\ isPlacingSignature = FALSE
             /\ placedSignatures = <<>>
          \/ /\ signatureDataUrl = ExportMask.dataUrl
             /\ trimmedSignatureSize = ExportMask.size
             /\ isPlacingSignature = (variant # "histogram")
             /\ placedSignatures \in
                  ExportStores(IF d.doc = NULL THEN 1 ELSE d.doc.numPages)
  /\ clock = Max(1, Len(placedSignatures))
  /\ draggedSignature = NULL
  /\ resizingSignature = NULL
  /\ interactionOccurred = FALSE
  /\ pendingResets = 0
  /\ pendingFinalize = <<>>
  /\ exportJobs = <<>>
  /\ download = NULL
  /\ CropClosed
  /\ lastOp = Op("init", 0, 0, "")
  /\ events = 0

NextExport ==
  \/ applyAndDownload
  \/ \E i \in 1..MaxExports : exportEmbed(i)
  \/ \E i \in 1..MaxExports : exportGroup(i)
  \/ \E i \in 1..MaxExports : exportPage(i)
  \/ \E i \in 1..MaxExports : exportSave(i)
  \/ \E p \in Pointers, scroll \in ScrollOffsets,
        onWrapper \in BOOLEAN, now \in 1..MaxClock :
        placeSignatureOnClick(p[1], p[2], scroll, onWrapper, now)
  \/ resetApp

SpecExport == InitExport /\ [][NextExport]_vars

(***************************************************************************)
(* Trimming on its own: every image up to MaxImgW x MaxImgH                *)
(***************************************************************************)
AlphaLevels == {0, 1}
TrimPixels == {<<0, 0, 0, a>> : a \in AlphaLevels}

TrimImages ==
  UNION { UNION { { [width |-> w, height |-> h, data |-> d] :
                      d \in [1..(w * h) -> TrimPixels] } :
                  h \in 0..MaxImgH } :
          w \in 0..MaxImgW }

InitTrim ==
  /\ variant = "threshold"
  /\ pageOffsetWidth = FixedLayout(800)
  /\ trimInput \in TrimImages
  /\ trimResult = NULL
  /\ horizon = 0
  /\ tracked = FALSE
  /\ GeminiUnused
  /\ Constructed

\* The decoded image goes through processSignatureImage and the check
\* finalizeSignature makes on its result.
trimImage ==
  /\ trimResult = NULL
  /\ trimResult' = [processed |-> processSignatureImage(trimInput),
                    outcome |-> FinalizeOutcome(trimInput)]
  /\ UNCHANGED <<variant, pageOffsetWidth, trimInput, horizon, tracked, gemini,
                 workVars, exportVars, cropVars,
                 docVars,
                 maskVars, gestureVars, placedSignatures, pendingFinalize,
                 clock, lastOp, events>>

NextTrim == trimImage

SpecTrim == InitTrim /\ [][NextTrim]_vars

(***************************************************************************)
(* Automatic background removal (histogram revision)                       *)
(*                                                                         *)
(* A pixel is <<r, g, b, a>>.  Distances are kept squared and luminance    *)
(* in thousandths, so every comparison of the source is one of integers.   *)
(***************************************************************************)
bucketSize == 16
luminanceThreshold == 128
transparentThreshold == 90
opaqueThreshold == 45
HistogramAlpha == 128
SkipAlpha == 25
VisibleAlpha == 10

Rgb(px) == <<px[1], px[2], px[3]>>
ClearedPixel == <<0, 0, 0, 0>>

\* 0.299 r + 0.587 g + 0.114 b, times 1000.
getLuminance(c) == 299 * c[1] + 587 * c[2] + 114 * c[3]

\* The square of colorDistance.
colorDistanceSq(c1, c2) ==
  (c1[1] - c2[1]) * (c1[1] - c2[1])
    + (c1[2] - c2[2]) * (c1[2] - c2[2])
    + (c1[3] - c2[3]) * (c1[3] - c2[3])

\* Math.round(v / bucketSize) * bucketSize; Math.round rounds halves up.
RoundToBucket(v) == ((2 * v + bucketSize) \div (2 * bucketSize)) * bucketSize

colorToKey(c) ==
  <<RoundToBucket(c[1]), RoundToBucket(c[2]), RoundToBucket(c[3])>>

\* The pixels step 1 counts, and among them the first of each bucket.
Counted(data) == {i \in 1..Len(data) : data[i][4] >= HistogramAlpha}

FirstOfBucket(data) ==
  {i \in Counted(data) :
     \A j \in Counted(data) :
       j < i => colorToKey(Rgb(data[j])) # colorToKey(Rgb(data[i]))}

\* Step 1: the histogram, its entries in the order their keys were first
\* set (the iteration order of a Map).  Each entry keeps the colour of the
\* first pixel of its bucket and counts the pixels of the bucket.
BuildHist(data) ==
  LET firsts == FirstOfBucket(data)
      Nth(n) == CHOOSE i \in firsts :
                  Cardinality({j \in firsts : j < i}) = n - 1
  IN  [n \in 1..Cardinality(firsts) |->
         LET c == Rgb(data[Nth(n)])
         IN  [key |-> colorToKey(c),
              color |-> c,
              count |-> Cardinality({j \in Counted(data) :
                           colorToKey(Rgb(data[j])) = colorToKey(c)}),
              luminance |-> getLuminance(c)]]

Histogram(image) == BuildHist(image.data)

\* The test of the luminance split taken the other way round.
IsLightBelow(entry) == entry.luminance < luminanceThreshold * 1000

IsLight(entry) == entry.luminance > luminanceThreshold * 1000

SyntheticLight ==
  [key |-> <<>>, color |-> <<255, 255, 255>>, count |-> 0,
   luminance |-> 255000]
SyntheticDark ==
  [key |-> <<>>, color |-> <<0, 0, 0>>, count |-> 0, luminance |-> 0]

\* The first entry, whatever the counts.
MostCountedFirst(entries, i, best) ==
  IF entries = <<>> THEN best ELSE entries[1]

\* The first entry whose count is above that of every entry before it and
\* of the starting value.
RECURSIVE MostCounted(_, _, _)
MostCounted(entries, i, best) ==
  IF i > Len(entries) THEN best
  ELSE MostCounted(entries, i + 1,
         IF entries[i].count > best.count THEN entries[i] ELSE best)

\* [...hist.values()].sort((a, b) => b.count - a.count): a stable sort.
RECURSIVE SortByCount(_)
SortByCount(entries) ==
  IF entries = <<>> THEN <<>>
  ELSE LET first ==
             CHOOSE i \in 1..Len(entries) :
               /\ \A j \in 1..Len(entries) : entries[j].count <= entries[i].count
               /\ \A j \in 1..(i - 1) : entries[j].count < entries[i].count
       IN  <<entries[first]>>
             \o SortByCount(SubSeq(entries, 1, first - 1)
                              \o SubSeq(entries, first + 1, Len(entries)))

\* Step 2 and its fallback.
classify(hist) ==
  LET light == MostCounted(SelectSeq(hist, IsLight), 1, SyntheticLight)
      dark == MostCounted(SelectSeq(hist, LAMBDA e : ~IsLight(e)), 1,
                          SyntheticDark)
  IN  IF light.count = 0 \/ dark.count = 0
      THEN LET sortedColors == SortByCount(hist)
               color1 == sortedColors[1]
               color2 == IF Len(sortedColors) >= 2 THEN sortedColors[2]
                         ELSE IF IsLight(color1) THEN SyntheticDark
                         ELSE SyntheticLight
           IN  IF color1.luminance > color2.luminance
               THEN [dominantLight |-> color1, dominantDark |-> color2]
               ELSE [dominantLight |-> color2, dominantDark |-> color1]
      ELSE [dominantLight |-> light, dominantDark |-> dark]

\* The pair step 3 works with, or NULL when the function returns before
\* step 2.
Classification(image) ==
  IF image.width = 0 \/ image.height = 0 THEN NULL
  ELSE IF Len(Histogram(image)) < 2 THEN NULL
  ELSE classify(Histogram(image))

\* distToBackground < distToSignature
\*   && distToBackground < transparentThreshold * 1.5
TakenByBackground(px, signatureColor, backgroundColor) ==
  LET dS == colorDistanceSq(Rgb(px), signatureColor)
      dB == colorDistanceSq(Rgb(px), backgroundColor)
  IN  /\ dB < dS
      /\ 4 * dB < (3 * transparentThreshold) * (3 * transparentThreshold)

\* a * (1 - (dist - opaque) / (transparent - opaque)) > 10
FeatherVisible(a, dS) ==
  LET band == transparentThreshold - opaqueThreshold
      lhs == a * transparentThreshold - VisibleAlpha * band
  IN  lhs > 0 /\ lhs * lhs > a * a * dS

\* The byte a Uint8ClampedArray stores for the feathered alpha: the
\* nearest integer, the even one of two equally near.
FeatherAlpha(a, dS) ==
  LET band == transparentThreshold - opaqueThreshold
      Upper(k) == 2 * a * transparentThreshold - (2 * k - 1) * band
      Lower(k) == 2 * a * transparentThreshold - (2 * k + 1) * band
      Near(k) == /\ Upper(k) >= 0
                 /\ 4 * a * a * dS <= Upper(k) * Upper(k)
                 /\ \/ Lower(k) <= 0
                    \/ 4 * a * a * dS >= Lower(k) * Lower(k)
      near == {k \in 0..255 : Near(k)}
  IN  IF \E k \in near : k % 2 = 0
      THEN CHOOSE k \in near : k % 2 = 0
      ELSE CHOOSE k \in near : TRUE

\* Step 3 for one pixel with the ink rule tried before the background rule.
segmentPixelInkFirst(px, signatureColor, backgroundColor) ==
  LET a == px[4]
      dS == colorDistanceSq(Rgb(px), signatureColor)
  IN  IF a < SkipAlpha THEN ClearedPixel
      ELSE IF dS <= opaqueThreshold * opaqueThreshold
      THEN IF a > VisibleAlpha THEN px ELSE ClearedPixel
      ELSE IF TakenByBackground(px, signatureColor, backgroundColor)
      THEN ClearedPixel
      ELSE IF dS < transparentThreshold * transparentThreshold
      THEN IF FeatherVisible(a, dS)
           THEN <<px[1], px[2], px[3], FeatherAlpha(a, dS)>>
           ELSE ClearedPixel
      ELSE ClearedPixel

\* Step 3 for one pixel without the skip of nearly transparent pixels.
segmentPixelNoSkip(px, signatureColor, backgroundColor) ==
  LET a == px[4]
      dS == colorDistanceSq(Rgb(px), signatureColor)
  IN  IF TakenByBackground(px, signatureColor, backgroundColor)
      THEN ClearedPixel
      ELSE IF dS <= opaqueThreshold * opaqueThreshold
      THEN IF a > VisibleAlpha THEN px ELSE ClearedPixel
      ELSE IF dS < transparentThreshold * transparentThreshold
      THEN IF FeatherVisible(a, dS)
           THEN <<px[1], px[2], px[3], FeatherAlpha(a, dS)>>
           ELSE ClearedPixel
      ELSE ClearedPixel

\* Step 3 for one pixel writing the ink colour for the pixels it keeps.
segmentPixelInkColour(px, signatureColor, backgroundColor) ==
  LET a == px[4]
      dS == colorDistanceSq(Rgb(px), signatureColor)
  IN  IF a < SkipAlpha THEN ClearedPixel
      ELSE IF TakenByBackground(px, signatureColor, backgroundColor)
      THEN ClearedPixel
      ELSE IF dS <= opaqueThreshold * opaqueThreshold
      THEN IF a > VisibleAlpha
           THEN <<signatureColor[1], signatureColor[2], signatureColor[3], a>>
           ELSE ClearedPixel
      ELSE IF dS < transparentThreshold * transparentThreshold
      THEN IF FeatherVisible(a, dS)
           THEN <<signatureColor[1], signatureColor[2], signatureColor[3],
                  FeatherAlpha(a, dS)>>
           ELSE ClearedPixel
      ELSE ClearedPixel

\* Step 3 for one pixel.
segmentPixel(px, signatureColor, backgroundColor) ==
  LET a == px[4]
      dS == colorDistanceSq(Rgb(px), signatureColor)
  IN  IF a < SkipAlpha THEN ClearedPixel
      ELSE IF TakenByBackground(px, signatureColor, backgroundColor)
      THEN ClearedPixel
      ELSE IF dS <= opaqueThreshold * opaqueThreshold
      THEN IF a > VisibleAlpha THEN px ELSE ClearedPixel
      ELSE IF dS < transparentThreshold * transparentThreshold
      THEN IF FeatherVisible(a, dS)
           THEN <<px[1], px[2], px[3], FeatherAlpha(a, dS)>>
           ELSE ClearedPixel
      ELSE ClearedPixel

removeBackgroundAutomatically(image) ==
  IF image.width = 0 \/ image.height = 0
  THEN [width |-> 0, height |-> 0, data |-> <<>>]
  ELSE LET found == Classification(image)
       IN  IF found = NULL
           THEN [image EXCEPT !.data =
                   [i \in 1..Len(image.data) |-> ClearedPixel]]
           ELSE [image EXCEPT !.data =
                   [i \in 1..Len(image.data) |->
                      segmentPixel(image.data[i], found.dominantDark.color,
                                   found.dominantLight.color)]]

(***************************************************************************)
(* Segmentation on its own: every image of up to MaxSegPixels pixels over  *)
(* a palette, segmented and then segmented again from its own output.      *)
(* trimInput holds the image, trimResult what the passes returned.         *)
(***************************************************************************)
White == <<255, 255, 255, 255>>
LightGrey == <<200, 200, 200, 255>>
Charcoal == <<40, 40, 40, 255>>
NearBlack == <<10, 10, 10, 255>>
Black == <<0, 0, 0, 255>>
SheerBlack == <<0, 0, 0, 100>>
FaintBlack == <<0, 0, 0, 20>>

SegPalette ==
  {White, LightGrey, Charcoal, NearBlack, Black, SheerBlack, FaintBlack}

SegShapes ==
  {s \in (1..MaxSegPixels) \X (1..MaxSegPixels) : s[1] * s[2] <= MaxSegPixels}

SegImages ==
  UNION { { [width |-> s[1], height |-> s[2], data |-> d] :
              d \in [1..(s[1] * s[2]) -> SegPalette] } : s \in SegShapes }

\* Two colours of different buckets and one luminance, 225.93.
Yellow == <<255, 255, 0, 255>>
Mint == <<200, 250, 170, 255>>

\* Images of one row, a pixel longer than the others, over opaque colours
\* only: those in which buckets differ in count on one side of the
\* luminance split, or tie in luminance.
ClassifyPalette == {White, LightGrey, Charcoal, Black, Yellow, Mint}

ClassifyImages ==
  UNION { { [width |-> n, height |-> 1, data |-> d] :
              d \in [1..n -> ClassifyPalette] } :
          n \in 2..(MaxSegPixels + 1) }

\* A 10 x 10 white image with a 2 x 2 black square at (4,4)-(5,5).
SquareOnPaper ==
  [width |-> 10, height |-> 10,
   data |-> [i \in 1..100 |->
               IF ((i - 1) % 10) \in 4..5 /\ ((i - 1) \div 10) \in 4..5
               THEN Black ELSE White]]

InitSegment ==
  /\ variant = "histogram"
  /\ pageOffsetWidth = FixedLayout(800)
  /\ trimInput \in SegImages \cup ClassifyImages \cup {SquareOnPaper}
  /\ trimResult = NULL
  /\ horizon = 0
  /\ tracked = FALSE
  /\ GeminiUnused
  /\ Constructed

SegmentUnchanged ==
  UNCHANGED <<variant, pageOffsetWidth, trimInput, horizon, tracked, gemini,
                 workVars, exportVars, cropVars,
              docVars,
              maskVars, gestureVars, placedSignatures, pendingFinalize,
              clock, lastOp, events>>

\* The image goes through _removeBackgroundAutomatically.
segmentImage ==
  /\ trimResult = NULL
  /\ trimResult' = [classification |-> Classification(trimInput),
                    passes |-> <<removeBackgroundAutomatically(trimInput)>>,
                    trimmed |-> NULL]
  /\ SegmentUnchanged

\* What the first pass returned goes on to finalizeSignature, as in
\* applyCropAndSave.
trimSegmented ==
  /\ trimResult # NULL
  /\ trimResult.trimmed = NULL
  /\ trimResult' =
       [trimResult EXCEPT !.trimmed = FinalizeOutcome(trimResult.passes[1])]
  /\ SegmentUnchanged

\* What it returned, once trimmed, goes through it again.
segmentAgain ==
  /\ trimResult # NULL
  /\ trimResult.trimmed # NULL
  /\ Len(trimResult.passes) < MaxPasses
  /\ trimResult' =
       [trimResult EXCEPT !.passes =
          Append(@, removeBackgroundAutomatically(@[Len(@)]))]
  /\ SegmentUnchanged

NextSegment == segmentImage \/ trimSegmented \/ segmentAgain

SpecSegment == InitSegment /\ [][NextSegment]_vars

(***************************************************************************)
(* Automatic background removal (spiral revision)                          *)
(*                                                                         *)
(* The paper is the most frequent colour of the sampled pixels, the ink    *)
(* the first pixel on a spiral from the centre that differs from it, and a *)
(* pixel is kept when its colour is near the ink's.                        *)
(***************************************************************************)
colorThreshold == 90
seedDistance == 40
SampledAlpha == 200
SeedAlpha == 128
KeyingAlpha == 100

\* _colorDistance, for the distances step 3 computes with: those below
\* colorThreshold.  The inputs are chosen so that they are whole numbers.
colorDistance(c1, c2) ==
  CHOOSE d \in 0..colorThreshold : d * d = colorDistanceSq(c1, c2)

\* The byte a Uint8ClampedArray stores for num / den: the nearest integer,
\* the even one of two equally near.
ClampedByte(num, den) ==
  LET q == num \div den
      rem == num % den
  IN  IF 2 * rem < den THEN q
      ELSE IF 2 * rem > den THEN q + 1
      ELSE IF q % 2 = 0 THEN q ELSE q + 1

\* Step 1: every second pixel is sampled (i += 8), the opaque ones counted
\* by exact colour; the most frequent colour, the first set of equally
\* frequent ones, is the paper, white when nothing was counted.
spiralBackground(data) ==
  LET sampled == {i \in 1..Len(data) : i % 2 = 1 /\ data[i][4] > SampledAlpha}
      Count(i) == Cardinality({j \in sampled : Rgb(data[j]) = Rgb(data[i])})
      firsts == {i \in sampled :
                   \A j \in sampled : j < i => Rgb(data[j]) # Rgb(data[i])}
  IN  IF sampled = {} THEN <<255, 255, 255>>
      ELSE Rgb(data[CHOOSE i \in firsts :
                      \A j \in firsts :
                         \/ Count(j) < Count(i)
                         \/ Count(j) = Count(i) /\ i <= j])

\* floor(r * cos(angle)), floor(r * sin(angle)) for the numPoints angles of
\* the radii 0, 1 and 2.
SpiralPoints ==
  << << <<0, 0>> >>,
     << <<1, 0>>, <<0, 0>>, <<-1, 0>>, <<-1, 0>>, <<-1, -1>>, <<-1, -1>>,
        <<0, -1>> >>,
     << <<2, 0>>, <<1, 0>>, <<1, 1>>, <<0, 1>>, <<-1, 1>>, <<-2, 1>>,
        <<-2, 0>>, <<-2, -1>>, <<-2, -2>>, <<-1, -2>>, <<0, -2>>, <<1, -2>>,
        <<1, -1>> >> >>

\* The positions step 2 looks at, in its order.
SpiralPath(image) ==
  LET centerX == image.width \div 2
      centerY == image.height \div 2
      radii == Max(centerX, centerY)
      F[r \in 0..radii] ==
        IF r = 0 THEN <<>>
        ELSE F[r - 1] \o
             [n \in 1..Len(SpiralPoints[r]) |->
                <<centerX + SpiralPoints[r][n][1],
                  centerY + SpiralPoints[r][n][2]>>]
  IN  F[radii]

\* Step 2: the colour of the first visible pixel on the path that is more
\* than seedDistance from the paper, or NULL.
spiralSeed(image, backgroundColor) ==
  LET path == SpiralPath(image)
      Px(n) == image.data[path[n][2] * image.width + path[n][1] + 1]
      Seeds == {n \in 1..Len(path) :
                  /\ path[n][1] >= 0 /\ path[n][1] < image.width
                  /\ path[n][2] >= 0 /\ path[n][2] < image.height
                  /\ Px(n)[4] > SeedAlpha
                  /\ colorDistanceSq(Rgb(Px(n)), backgroundColor)
                       > seedDistance * seedDistance}
  IN  IF Seeds = {} THEN NULL
      ELSE Rgb(Px(CHOOSE n \in Seeds : \A m \in Seeds : n <= m))

\* Step 3 for one pixel: kept with alpha a * alphaFactor^2 when its colour
\* is less than colorThreshold from the ink's.
spiralPixel(px, signatureInkColor) ==
  IF px[4] < KeyingAlpha THEN ClearedPixel
  ELSE IF colorDistanceSq(Rgb(px), signatureInkColor)
            < colorThreshold * colorThreshold
  THEN LET d == colorDistance(Rgb(px), signatureInkColor)
       IN  <<px[1], px[2], px[3],
             ClampedByte(px[4] * (colorThreshold - d) * (colorThreshold - d),
                         colorThreshold * colorThreshold)>>
  ELSE ClearedPixel

\* The pair the spiral revision works with, or NULL when no ink is found.
SpiralClassification(image) ==
  IF image.width = 0 \/ image.height = 0 THEN NULL
  ELSE LET bg == spiralBackground(image.data)
           ink == spiralSeed(image, bg)
       IN  IF ink = NULL THEN NULL
           ELSE [dominantLight |-> [color |-> bg],
                 dominantDark |-> [color |-> ink]]

removeBackgroundSpiral(image) ==
  IF image.width = 0 \/ image.height = 0
  THEN [width |-> 0, height |-> 0, data |-> <<>>]
  ELSE LET found == SpiralClassification(image)
       IN  IF found = NULL
           THEN [image EXCEPT !.data =
                   [i \in 1..Len(image.data) |-> ClearedPixel]]
           ELSE [image EXCEPT !.data =
                   [i \in 1..Len(image.data) |->
                      spiralPixel(image.data[i], found.dominantDark.color)]]

(***************************************************************************)
(* The spiral revision's segmentation on its own: images of one row over   *)
(* colours whose distances from one another are whole numbers or beyond    *)
(* colorThreshold.                                                         *)
(***************************************************************************)
Maroon == <<88, 0, 0, 255>>
DarkRed == <<60, 0, 0, 255>>

SpiralPalette == {White, Black, Maroon, DarkRed, SheerBlack}

SpiralImages ==
  UNION { { [width |-> n, height |-> 1, data |-> d] :
              d \in [1..n -> SpiralPalette] } :
          n \in 2..(MaxSegPixels + 1) }

InitSpiral ==
  /\ variant = "threshold"
  /\ pageOffsetWidth = FixedLayout(800)
  /\ trimInput \in SpiralImages
  /\ trimResult = NULL
  /\ horizon = 0
  /\ tracked = FALSE
  /\ GeminiUnused
  /\ Constructed

\* The image goes through the spiral revision's
\* _removeBackgroundAutomatically.
segmentSpiral ==
  /\ trimResult = NULL
  /\ trimResult' = [classification |-> SpiralClassification(trimInput),
                    passes |-> <<removeBackgroundSpiral(trimInput)>>,
                    trimmed |-> NULL]
  /\ SegmentUnchanged

NextSpiral == segmentSpiral \/ trimSegmented

SpecSpiral == InitSpiral /\ [][NextSpiral]_vars

(***************************************************************************)
(* Background removal of the fixed-threshold revision                      *)
(***************************************************************************)
colorDistanceThreshold == 80

\* The four corner pixels, in the order of cornerPixels.
CornerPixels(image) ==
  LET At(x, y) == image.data[y * image.width + x + 1]
  IN  << At(0, 0), At(image.width - 1, 0), At(0, image.height - 1),
         At(image.width - 1, image.height - 1) >>

\* distance > colorDistanceThreshold, the distance being that to the mean
\* of the corners: both sides times the number of corners, squared.
FarFromCorners(px, corners) ==
  LET n == Len(corners)
      Sum(c) == corners[1][c] + corners[2][c] + corners[3][c] + corners[4][c]
      D(c) == n * px[c] - Sum(c)
  IN  D(1) * D(1) + D(2) * D(2) + D(3) * D(3)
        > n * n * colorDistanceThreshold * colorDistanceThreshold

removeBackgroundAlgorithmically(image) ==
  [image EXCEPT !.data =
     [i \in 1..Len(image.data) |->
        IF image.data[i][4] < HistogramAlpha THEN ClearedPixel
        ELSE IF FarFromCorners(image.data[i], CornerPixels(image))
        THEN image.data[i]
        ELSE ClearedPixel]]

(***************************************************************************)
(* Cropping an uploaded image                                              *)
(***************************************************************************)
\* An uploaded image is named by what it shows; PixelOf gives its pixels:
\* a block of ink on white paper, or the paper alone.
CropSources ==
  { [name |-> "InkOnPaper", width |-> 24, height |-> 12],
    [name |-> "BlankPaper", width |-> 24, height |-> 12] }

PixelOf(source, x, y) ==
  IF source.name = "InkOnPaper" /\ x \in 4..9 /\ y \in 4..7
  THEN Black ELSE White

Decoded(source) ==
  [width |-> source.width, height |-> source.height,
   data |-> [i \in 1..(source.width * source.height) |->
               PixelOf(source, (i - 1) % source.width,
                       (i - 1) \div source.width)]]

\* The sizes of the element the cropping canvas is fitted into.
CropContainers ==
  { [width |-> 24, height |-> 12], [width |-> 12, height |-> 6] }

\* Pointer positions relative to the cropping canvas.
CropPointers ==
  { [x |-> 1, y |-> 1], [x |-> 6, y |-> 1], [x |-> 6, y |-> 6] }

\* The least crop width and height a revision accepts, in source pixels.
MinimumCropSizeNone(v) == 0

MinimumCropSize(v) == IF v = "threshold" THEN 10 ELSE 1

\* reader.onload of onSignatureImageSelected.
onSignatureImageSelected(source) ==
  /\ croppingImageUrl' = source
  /\ isCropping' = TRUE
  /\ Event("onSignatureImageSelected", 0, 0, source.name)
  /\ UNCHANGED <<envVars, exportVars, docVars, maskVars, gestureVars,
                 placedSignatures, pendingFinalize, clock,
                 originalImageForCrop, croppingCanvas, cropStartPos,
                 cropEndPos, isDrawingCrop, cropJobs>>

\* The effect on isCropping and croppingImageUrl has run, and the image it
\* loads has loaded: the canvas is fitted into its container.
initCroppingCanvas(container) ==
  /\ isCropping
  /\ croppingImageUrl # NULL
  /\ originalImageForCrop # croppingImageUrl
  /\ originalImageForCrop' = croppingImageUrl
  /\ LET img == croppingImageUrl
         byWidth == container.width * img.height
                      <= container.height * img.width
     IN  croppingCanvas' =
           IF byWidth
           THEN [width |-> container.width,
                 height |-> (img.height * container.width) \div img.width]
           ELSE [width |-> (img.width * container.height) \div img.height,
                 height |-> container.height]
  /\ Event("initCroppingCanvas", container.width, container.height, "")
  /\ UNCHANGED <<envVars, exportVars, docVars, maskVars, gestureVars,
                 placedSignatures, pendingFinalize, clock,
                 isCropping, croppingImageUrl, cropStartPos, cropEndPos,
                 isDrawingCrop, cropJobs>>

onCropMouseDown(p) ==
  /\ isCropping
  /\ isDrawingCrop' = TRUE
  /\ cropStartPos' = p
  /\ cropEndPos' = p
  /\ Event("onCropMouseDown", p.x, p.y, "")
  /\ UNCHANGED <<envVars, exportVars, docVars, maskVars, gestureVars,
                 placedSignatures, pendingFinalize, clock,
                 isCropping, croppingImageUrl, originalImageForCrop,
                 croppingCanvas, cropJobs>>

onCropMouseMove(p) ==
  /\ isCropping
  /\ IF isDrawingCrop
     THEN /\ cropEndPos' = p
          /\ Event("onCropMouseMove", p.x, p.y, "")
     ELSE /\ UNCHANGED cropEndPos
          /\ Event("onCropMouseMove", p.x, p.y, "ignored")
  /\ UNCHANGED <<envVars, exportVars, docVars, maskVars, gestureVars,
                 placedSignatures, pendingFinalize, clock,
                 isCropping, croppingImageUrl, originalImageForCrop,
                 croppingCanvas, cropStartPos, isDrawingCrop, cropJobs>>

onCropMouseUp ==
  /\ isCropping
  /\ IF isDrawingCrop
     THEN /\ isDrawingCrop' = FALSE
          /\ Event("onCropMouseUp", 0, 0, "")
     ELSE /\ UNCHANGED isDrawingCrop
          /\ Event("onCropMouseUp", 0, 0, "ignored")
  /\ UNCHANGED <<envVars, exportVars, docVars, maskVars, gestureVars,
                 placedSignatures, pendingFinalize, clock,
                 isCropping, croppingImageUrl, originalImageForCrop,
                 croppingCanvas, cropStartPos, cropEndPos, cropJobs>>

\* What cancelCrop assigns; the canvas leaves the view with the session.
CancelCropEffect ==
  /\ isCropping' = FALSE
  /\ croppingImageUrl' = NULL
  /\ cropStartPos' = NULL
  /\ cropEndPos' = NULL
  /\ originalImageForCrop' = NULL
  /\ isDrawingCrop' = FALSE
  /\ croppingCanvas' = NULL

cancelCrop ==
  /\ isCropping
  /\ CancelCropEffect
  /\ Event("cancelCrop", 0, 0, "")
  /\ UNCHANGED <<envVars, exportVars, docVars, maskVars, gestureVars,
                 placedSignatures, pendingFinalize, clock, cropJobs>>

\* applyCropAndSave up to its setTimeout.
applyCropAndSave ==
  /\ isCropping
  /\ IF cropStartPos = NULL \/ cropEndPos = NULL
          \/ originalImageForCrop = NULL
     THEN /\ UNCHANGED <<cropJobs, isLoading>>
          /\ Event("applyCropAndSave", 0, 0, "refused")
     ELSE /\ Len(cropJobs) < MaxTimers
          /\ cropJobs' = Append(cropJobs, [pc |-> "timer"])
          /\ Loading(TRUE)
          /\ Event("applyCropAndSave", 0, 0, "started")
  /\ UNCHANGED <<mountVars, renderVars, pdfJs, exportVars, docVars, maskVars, gestureVars,
                 placedSignatures, pendingFinalize, clock,
                 isCropping, croppingImageUrl, originalImageForCrop,
                 croppingCanvas, cropStartPos, cropEndPos, isDrawingCrop>>

\* The selection in source pixels, as the timer callback computes it from
\* the fields it reads.  Every selection of the model lands on whole source
\* pixels, so the copy drawImage makes is exact.
CropRegion ==
  LET iw == originalImageForCrop.width
      cw == croppingCanvas.width
      x1 == cropStartPos.x
      y1 == cropStartPos.y
      x2 == cropEndPos.x
      y2 == cropEndPos.y
  IN  [x |-> Rat(Min(x1, x2) * iw, cw),
       y |-> Rat(Min(y1, y2) * iw, cw),
       width |-> Rat(Abs(x1 - x2) * iw, cw),
       height |-> Rat(Abs(y1 - y2) * iw, cw)]

\* The integer a canvas dimension or pixel position keeps of a number that
\* is not negative.
Trunc(q) == q[1] \div q[2]

\* cropW < minimum || cropH < minimum
RegionTooSmall(region, minimum) ==
  \/ RLess(region.width, Int2Rat(minimum))
  \/ RLess(region.height, Int2Rat(minimum))

\* The timer callback of applyCropAndSave, up to its first await or its
\* return.  The histogram and spiral revisions segment within it.
cropTimer(i) ==
  /\ i \in 1..Len(cropJobs)
  /\ cropJobs[i].pc = "timer"
  /\ IF originalImageForCrop = NULL \/ cropStartPos = NULL
          \/ cropEndPos = NULL \/ croppingCanvas = NULL
     THEN /\ cropJobs' = RemoveAt(cropJobs, i)
          /\ Loading(FALSE)
          /\ Event("cropTimer", 0, 0, "TypeError")
     ELSE LET region == CropRegion
          IN  IF RegionTooSmall(region, MinimumCropSize(variant))
              THEN /\ cropJobs' = RemoveAt(cropJobs, i)
                   /\ Loading(FALSE)
                   /\ Event("cropTimer", Trunc(region.width),
                            Trunc(region.height), "RegionTooSmall")
              ELSE /\ cropJobs' =
                        [cropJobs EXCEPT ![i] =
                           [pc |-> IF variant = "threshold" THEN "segment"
                                   ELSE "finalize",
                            cropped |->
                              [source |-> originalImageForCrop,
                               x |-> Trunc(region.x),
                               y |-> Trunc(region.y),
                               width |-> Trunc(region.width),
                               height |-> Trunc(region.height)]]]
                   /\ UNCHANGED isLoading
                   /\ Event("cropTimer", Trunc(region.width),
                            Trunc(region.height), "cropped")
  /\ UNCHANGED <<mountVars, renderVars, pdfJs, exportVars, docVars, maskVars, gestureVars,
                 placedSignatures, pendingFinalize, clock,
                 isCropping, croppingImageUrl, originalImageForCrop,
                 croppingCanvas, cropStartPos, cropEndPos, isDrawingCrop>>

\* The pixels of what a job cropped.
CroppedImage(c) ==
  LET cut == CropImage(Decoded(c.source), c.x, c.y, c.width, c.height)
  IN  [width |-> c.width, height |-> c.height, data |-> cut.data]

\* What segmentation makes of what a job cropped.
Cleaned(c) ==
  IF variant = "threshold"
  THEN removeBackgroundAlgorithmically(CroppedImage(c))
  ELSE removeBackgroundAutomatically(CroppedImage(c))

\* The threshold revision's _removeBackgroundAlgorithmically has settled.
cropSegmented(i) ==
  /\ i \in 1..Len(cropJobs)
  /\ cropJobs[i].pc = "segment"
  /\ cropJobs' = [cropJobs EXCEPT ![i].pc = "finalize"]
  /\ Event("cropSegmented", 0, 0, "")
  /\ UNCHANGED <<envVars, exportVars, docVars, maskVars, gestureVars,
                 placedSignatures, pendingFinalize, clock,
                 isCropping, croppingImageUrl, originalImageForCrop,
                 croppingCanvas, cropStartPos, cropEndPos, isDrawingCrop>>

\* finalizeSignature has settled within applyCropAndSave; cancelCrop
\* follows its success.
cropFinalized(i, decoded) ==
  /\ i \in 1..Len(cropJobs)
  /\ cropJobs[i].pc = "finalize"
  /\ cropJobs' = RemoveAt(cropJobs, i)
  /\ LET out == IF decoded THEN FinalizeOutcome(Cleaned(cropJobs[i].cropped))
                ELSE [error |-> "DecodeFailure"]
     IN  IF out.error # ""
         THEN /\ Event("cropFinalized", 0, 0, out.error)
              /\ UNCHANGED <<maskVars, placedSignatures, isCropping,
                             croppingImageUrl, originalImageForCrop,
                             croppingCanvas, cropStartPos, cropEndPos,
                             isDrawingCrop>>
         ELSE /\ signatureDataUrl' = out.dataUrl
              /\ trimmedSignatureSize' = out.size
              /\ isPlacingSignature' =
                   IF variant = "histogram" THEN isPlacingSignature
                   ELSE TRUE
              /\ placedSignatures' =
                   RescaleAll(placedSignatures, out.size.aspectRatio)
              /\ CancelCropEffect
              /\ Event("cropFinalized", 0, 0, "ok")
  /\ Loading(FALSE)
  /\ UNCHANGED <<mountVars, renderVars, pdfJs, exportVars, docVars, gestureVars, pendingFinalize,
                 clock>>

CropDocument == CHOOSE f \in InputFiles : f.valid

InitCrop ==
  /\ variant \in Variants
  /\ pageOffsetWidth = FixedLayout(800)
  /\ trimInput = NULL
  /\ trimResult = NULL
  /\ horizon = MaxEventsCrop
  /\ tracked = FALSE
  /\ GeminiUnused
  /\ WorkIdle
  /\ pdfFile = CropDocument
  /\ pdfDoc = CropDocument
  /\ currentPage = 1
  /\ totalPages = CropDocument.numPages
  /\ pendingLoads = <<>>
  /\ \/ /\ signatureDataUrl = NULL
        /\ trimmedSignatureSize = NULL
        /\ isPlacingSignature = FALSE
        /\ placedSignatures = <<>>
     \/ /\ signatureDataUrl = ExportMask.dataUrl
        /\ trimmedSignatureSize = ExportMask.size
        /\ isPlacingSignature = (variant # "histogram")
        /\ placedSignatures \in
             { <<>>, <<ExportInstance(1, 1, [x |-> 100, y |-> 50,
                                             width |-> 120])>> }
  /\ clock = 1
  /\ draggedSignature = NULL
  /\ resizingSignature = NULL
  /\ interactionOccurred = FALSE
  /\ pendingResets = 0
  /\ pendingFinalize = <<>>
  /\ exportJobs = <<>>
  /\ download = NULL
  /\ CropClosed
  /\ lastOp = Op("init", 0, 0, "")
  /\ events = 0

NextCrop ==
  \/ \E source \in CropSources : onSignatureImageSelected(source)
  \/ \E container \in CropContainers : initCroppingCanvas(container)
  \/ \E p \in CropPointers : onCropMouseDown(p)
  \/ \E p \in CropPointers : onCropMouseMove(p)
  \/ onCropMouseUp
  \/ cancelCrop
  \/ applyCropAndSave
  \/ \E i \in 1..MaxTimers : cropTimer(i)
  \/ \E i \in 1..MaxTimers : cropSegmented(i)
  \/ \E i \in 1..MaxTimers, decoded \in BOOLEAN : cropFinalized(i, decoded)

SpecCrop == InitCrop /\ [][NextCrop]_vars

(***************************************************************************)
(* Properties                                                              *)
(***************************************************************************)
Sigs == {placedSignatures[k] : k \in 1..Len(placedSignatures)}
ActiveMask == Truthy(signatureDataUrl) /\ Truthy(trimmedSignatureSize)
Finalized == lastOp.op = "finalizeSignature" /\ lastOp.arg = "ok"
Placed == lastOp.op = "placeSignatureOnClick" /\ lastOp.arg = "placed"

\* C1: in every reachable state every placed signature has
\* height = width / aspectRatio.
C1_HeightIsWidthOverAspect ==
  \A s \in Sigs : s.height = RDiv(s.width, s.aspectRatio)

\* C2: draggedSignature and resizingSignature are never both non-null.
C2_SingleInteraction ==
  ~(draggedSignature # NULL /\ resizingSignature # NULL)

\* C3: a successful finalizeSignature sets, on every existing instance,
\* aspectRatio to the new mask's ratio (trimmed width / trimmed height) and
\* height to width / that ratio, and leaves id, page, position and width of
\* every instance, and the number and order of instances, unchanged.
C3_MaskReplacementFrame ==
  [][ (Finalized' /\ events' = events + 1) =>
        LET newAspectRatio == RDiv(Int2Rat(trimmedSignatureSize'.width),
                                   Int2Rat(trimmedSignatureSize'.height))
        IN  /\ trimmedSignatureSize'.aspectRatio = newAspectRatio
            /\ Len(placedSignatures') = Len(placedSignatures)
            /\ \A k \in 1..Len(placedSignatures) :
                 /\ placedSignatures'[k].aspectRatio = newAspectRatio
                 /\ placedSignatures'[k].height =
                      RDiv(placedSignatures[k].width, newAspectRatio)
                 /\ placedSignatures'[k].id = placedSignatures[k].id
                 /\ placedSignatures'[k].page = placedSignatures[k].page
                 /\ placedSignatures'[k].position = placedSignatures[k].position
                 /\ placedSignatures'[k].width = placedSignatures[k].width ]_vars

\* A mask replacement has just rewritten a store holding an instance that
\* was placed under a mask of another aspect ratio: its height is no longer
\* the one it was centred with on any pointer position.
C3_Witness ==
  /\ Finalized
  /\ \E s \in Sigs :
       \A p \in Pointers :
         s.position.y # RSub(Int2Rat(p[2]), RDiv(s.height, Int2Rat(2)))

\* C4: after every pointer-move delivered while an instance is being
\* resized, that instance's width is
\* max(20, startWidth + (currentPointer.x - startPointer.x)), hence never
\* below 20.
C4_ResizeClampsWidth ==
  (lastOp.op = "onDrag" /\ resizingSignature # NULL) =>
     \A s \in Sigs :
        s.id = resizingSignature.signature.id =>
          /\ s.width = RMax(Int2Rat(MinimumWidth),
                            RAdd(resizingSignature.startSize.width,
                                 RSub(Int2Rat(lastOp.x),
                                      resizingSignature.eventStartPos.x)))
          /\ RLeq(Int2Rat(MinimumWidth), s.width)

\* C5: after every pointer-move delivered while an instance is being
\* dragged, that instance's position is
\* startPosition + (currentPointer - startPointer), with startPosition and
\* startPointer as captured by the pointer-down; it is a function of the
\* current pointer alone, whatever moves came before.
C5_DragPosition ==
  (lastOp.op = "onDrag" /\ draggedSignature # NULL) =>
     \A s \in Sigs :
        s.id = draggedSignature.signature.id =>
          s.position =
            [x |-> RAdd(draggedSignature.startPos.x,
                        RSub(Int2Rat(lastOp.x), draggedSignature.eventStartPos.x)),
             y |-> RAdd(draggedSignature.startPos.y,
                        RSub(Int2Rat(lastOp.y), draggedSignature.eventStartPos.y))]

\* A pointer-move has carried the dragged instance away from where the
\* pointer-down found it, in both axes.
C5_Witness ==
  /\ lastOp.op = "onDrag"
  /\ draggedSignature # NULL
  /\ \E s \in Sigs : /\ s.id = draggedSignature.signature.id
                     /\ s.position.x # draggedSignature.startPos.x
                     /\ s.position.y # draggedSignature.startPos.y

\* What the step of an accepted placement does to the store, for a new
\* instance of width fraction * displayed width.
PlacementStep(fraction) ==
  LET new == placedSignatures'[Len(placedSignatures')]
      width == RMul(Int2Rat(offsetWidth), fraction)
      height == RDiv(width, trimmedSignatureSize.aspectRatio)
  IN  /\ Len(placedSignatures') = Len(placedSignatures) + 1
      /\ SubSeq(placedSignatures', 1, Len(placedSignatures)) = placedSignatures
      /\ new.page = currentPage
      /\ new.width = width
      /\ new.aspectRatio = trimmedSignatureSize.aspectRatio
      /\ new.height = height
      /\ new.position =
           [x |-> RSub(Int2Rat(lastOp'.x), RDiv(width, Int2Rat(2))),
            y |-> RSub(Int2Rat(lastOp'.y), RDiv(height, Int2Rat(2)))]

\* C6 as stated: an accepted placement appends exactly one instance, on the
\* current page, of width 0.15 * displayed width, with the active mask's
\* aspect ratio, height = width / aspectRatio, centred on the pointer; the
\* existing instances are unchanged.
C6_PlacementFraction015 ==
  [][ (Placed' /\ events' = events + 1) => PlacementStep(PlacementFraction) ]_vars

\* C6 amended: the same, the fraction being 0.15 in the fixed-threshold and
\* spiral revisions and 0.20 in the histogram revision.
C6_PlacementCentred ==
  [][ (Placed' /\ events' = events + 1) =>
        PlacementStep(IF variant = "histogram" THEN PlacementFractionH
                      ELSE PlacementFraction) ]_vars

\* The example of the specification: aspect ratio 3, displayed width 800,
\* pointer (100, 100); the new instance joins an existing one.
C6_Witness ==
  /\ Placed
  /\ variant = "threshold"
  /\ pageOffsetWidth = FixedLayout(800)
  /\ Len(placedSignatures) = 2
  /\ lastOp.x = 100 /\ lastOp.y = 100
  /\ LET new == placedSignatures[2]
     IN  /\ new.aspectRatio = <<3, 1>>
         /\ new.width = <<120, 1>>
         /\ new.height = <<40, 1>>
         /\ new.position = [x |-> <<40, 1>>, y |-> <<80, 1>>]

\* C7: deleteSignature(id) removes exactly one instance, the one with that
\* id, keeping the others in order and unchanged; an absent id changes
\* nothing.
C7_DeleteRemovesOne ==
  [][ (lastOp'.op = "deleteSignature" /\ events' = events + 1) =>
        IF \E s \in Sigs : s.id = lastOp'.x
        THEN \E k \in 1..Len(placedSignatures) :
                /\ placedSignatures[k].id = lastOp'.x
                /\ placedSignatures' = RemoveAt(placedSignatures, k)
        ELSE placedSignatures' = placedSignatures ]_vars

\* C8: no two instances of the store share an id.
C8_UniqueIds ==
  \A i, j \in 1..Len(placedSignatures) :
     i # j => placedSignatures[i].id # placedSignatures[j].id

\* C9: right after a session reset (resetApp, also as called by a failed
\* load, or the selection of a new PDF file) the store is empty, there is
\* no active mask and placement mode is off.
SessionReset ==
  \/ lastOp.op = "resetApp"
  \/ lastOp.op = "onFileSelected" /\ lastOp.arg = "selected"
  \/ lastOp.op = "loadPdf" /\ lastOp.arg = "failed" /\ variant # "histogram"

C9_ResetDestroysAll ==
  SessionReset =>
    /\ placedSignatures = <<>>
    /\ ~ActiveMask
    /\ ~isPlacingSignature

\* A reset has ended a session in which a mask had been extracted and an
\* instance placed at a later clock reading.
C9_Witness ==
  /\ SessionReset
  /\ clock > 1
  /\ placedSignatures = <<>>

AllTransparent(img) == \A k \in 1..Len(img.data) : img.data[k][4] = 0

OpaqueAt(img, x, y) == img.data[(y * img.width + x) + 1][4] > 0
HasContent(img) ==
  \E x \in 0..(img.width - 1), y \in 0..(img.height - 1) : OpaqueAt(img, x, y)

\* The w x h rectangle of img at (minX, minY) holds every pixel of alpha > 0
\* and has one on each of its four edges.
TightBox(img, minX, minY, w, h) ==
  LET maxX == minX + w - 1
      maxY == minY + h - 1
  IN  /\ w >= 1 /\ h >= 1 /\ maxX < img.width /\ maxY < img.height
      /\ \A x \in 0..(img.width - 1), y \in 0..(img.height - 1) :
           OpaqueAt(img, x, y) =>
             (minX <= x /\ x <= maxX /\ minY <= y /\ y <= maxY)
      /\ \E y \in minY..maxY : OpaqueAt(img, minX, y)
      /\ \E y \in minY..maxY : OpaqueAt(img, maxX, y)
      /\ \E x \in minX..maxX : OpaqueAt(img, x, minY)
      /\ \E x \in minX..maxX : OpaqueAt(img, x, maxY)

\* C11: for every image with a pixel of alpha > 0 the trimmed result is the
\* copy of a rectangle of the source that contains every such pixel and has
\* one in its first and last column and row; the reported width and height
\* are that rectangle's, and the aspect ratio handed downstream is trimmed
\* width / trimmed height.
C11_TrimIsTightBox ==
  (trimResult # NULL /\ HasContent(trimInput)) =>
    LET processed == trimResult.processed
        outcome == trimResult.outcome
    IN  /\ outcome.error = ""
        /\ \E minX \in 0..(trimInput.width - 1),
              minY \in 0..(trimInput.height - 1) :
             /\ TightBox(trimInput, minX, minY, processed.width,
                         processed.height)
             /\ processed.dataUrl.width = processed.width
             /\ processed.dataUrl.height = processed.height
             /\ \A x \in 0..(processed.width - 1),
                   y \in 0..(processed.height - 1) :
                  processed.dataUrl.data[(y * processed.width + x) + 1] =
                    trimInput.data[((minY + y) * trimInput.width
                                    + (minX + x)) + 1]
        /\ outcome.size.width = processed.width
        /\ outcome.size.height = processed.height
        /\ outcome.size.aspectRatio = Rat(processed.width, processed.height)

\* An image has been trimmed on both axes to a box whose aspect ratio is
\* not the image's own.
C11_Witness ==
  /\ trimResult # NULL
  /\ HasContent(trimInput)
  /\ trimResult.processed.width < trimInput.width
  /\ trimResult.processed.height < trimInput.height
  /\ trimResult.outcome.size.aspectRatio
       # Rat(trimInput.width, trimInput.height)

(***************************************************************************)
(* Export: properties                                                      *)
(***************************************************************************)
Jobs == {exportJobs[i] : i \in 1..Len(exportJobs)}

\* pageScaleFactor and pageHeightPoints of a page, as the export reads them.
PageScaleFactor(pageNum) ==
  RDiv(ViewportWidth(pageNum, pdfRenderScale), Int2Rat(offsetWidth))
PageHeightPoints(pageNum) == Int2Rat(PageSizes[pageNum].height)

\* The step of exportPage that has drawn the first group of the i-th job
\* and left the job in progress.
DrawsGroup(i) ==
  /\ i \in 1..Len(exportJobs) /\ Len(exportJobs') = Len(exportJobs)
  /\ exportJobs[i].pc = "page"
  /\ exportJobs'[i] # exportJobs[i]
  /\ lastOp'.op = "exportPage" /\ events' = events + 1

\* The drawImage calls that step has added.
NewDraws(i) ==
  SubSeq(exportJobs'[i].drawn, Len(exportJobs[i].drawn) + 1,
         Len(exportJobs'[i].drawn))

\* C12: the rectangle drawn for a render-pixel rect (x, y, w, h) is
\* pointX = x*s/c, pointWidth = w*s/c, pointHeight = h*s/c and
\* pointY = pageHeightPoints - y*s/c - pointHeight, with s the page scale
\* factor and c the render scale constant 1.5.
C12_ExportTransform ==
  [][ \A i \in 1..MaxExports :
        DrawsGroup(i) =>
          LET group == exportJobs[i].groups[1]
              s == PageScaleFactor(group.page)
              c == <<3, 2>>
              H == PageHeightPoints(group.page)
              new == NewDraws(i)
          IN  /\ Len(new) = Len(group.signatures)
              /\ \A k \in 1..Len(new) :
                   LET r == RectOf(group.signatures[k])
                       pointHeight == RDiv(RMul(r.height, s), c)
                   IN  new[k].rect =
                         [x |-> RDiv(RMul(r.x, s), c),
                          y |-> RSub(RSub(H, RDiv(RMul(r.y, s), c)),
                                     pointHeight),
                          width |-> RDiv(RMul(r.width, s), c),
                          height |-> pointHeight] ]_vars

\* The rect {x: 100, y: 50, width: 120, height: 40} has been drawn on a
\* page 792 points high with s = 1: x = 200/3, y = 732, width = 80,
\* height = 80/3.
C12_Witness ==
  /\ lastOp.op = "exportPage"
  /\ \E job \in Jobs :
       /\ \E k \in 1..Len(job.store) :
            /\ RectOf(job.store[k]) =
                 [x |-> <<100, 1>>, y |-> <<50, 1>>,
                  width |-> <<120, 1>>, height |-> <<40, 1>>]
            /\ job.store[k].page = 1
       /\ PageScaleFactor(1) = <<1, 1>>
       /\ PageHeightPoints(1) = <<792, 1>>
       /\ \E d \in 1..Len(job.drawn) :
            /\ job.drawn[d].page = 1
            /\ job.drawn[d].rect =
                 [x |-> <<200, 3>>, y |-> <<732, 1>>,
                  width |-> <<80, 1>>, height |-> <<80, 3>>]

\* The inverse of the scale and flip formulas: from document points back
\* to render pixels.
toRenderRect(pointRect, s, c, H) ==
  [x |-> RDiv(RMul(pointRect.x, c), s),
   y |-> RDiv(RMul(RSub(RSub(H, pointRect.y), pointRect.height), c), s),
   width |-> RDiv(RMul(pointRect.width, c), s),
   height |-> RDiv(RMul(pointRect.height, c), s)]

DrawnRects(sigs, pageNum, shown) ==
  [k \in 1..Len(sigs) |->
     toDocumentRect(RectOf(sigs[k]),
                    RDiv(ViewportWidth(pageNum, pdfRenderScale),
                         Int2Rat(pageOffsetWidth[shown])),
                    pdfRenderScale, PageHeightPoints(pageNum))]

DrawsOnPage(draws, pageNum) ==
  LET onPage == SelectSeq(draws, LAMBDA d : d.page = pageNum)
  IN  [k \in 1..Len(onPage) |-> onPage[k].rect]

\* C14: a completed export has drawn one rectangle per instance of the
\* store it read: as many draws as instances, and on every page the draws
\* are those of the instances whose page field is that page, in store
\* order.
C14_ExportOnePerInstance ==
  download # NULL =>
    /\ Len(download.draws) = Len(download.store)
    /\ \A d \in 1..Len(download.draws) :
         download.draws[d].page \in 1..Len(PageSizes)
    /\ \A pageNum \in 1..Len(PageSizes) :
         \E shown \in 1..Len(PageSizes) :
            DrawsOnPage(download.draws, pageNum) =
              DrawnRects(OnPage(download.store, pageNum), pageNum, shown)

\* A document has been downloaded for a store whose first instance is on
\* page 2 and whose second is on page 1.
C14_Witness ==
  /\ download # NULL
  /\ Len(download.store) = 2
  /\ download.store[1].page = 2
  /\ download.store[2].page = 1

\* Whether an export request finds no selected file, no mask or no
\* placement.
NothingToExport ==
  \/ pdfFile = NULL
  \/ signatureDataUrl = NULL
  \/ signatureDataUrl = EmptyDataUrl
  \/ placedSignatures = <<>>

\* C15: a placement click made while no signature has been extracted leaves
\* the store unchanged, and an export request made with no mask, no
\* placement or no document starts no export, writes no document and
\* changes no state.
C15_FailsSafeWithoutMask ==
  [][ /\ (/\ lastOp'.op = "placeSignatureOnClick" /\ events' = events + 1
          /\ ~ActiveMask)
        => placedSignatures' = placedSignatures
      /\ (/\ lastOp'.op = "applyAndDownload" /\ events' = events + 1
          /\ NothingToExport)
        => UNCHANGED <<exportVars, docVars, maskVars, gestureVars,
                       placedSignatures, pendingFinalize, clock>> ]_vars

\* An export has just been refused for want of a mask, with a file
\* selected.
C15_Witness ==
  /\ lastOp.op = "applyAndDownload"
  /\ lastOp.arg = "refused"
  /\ pdfFile # NULL
  /\ signatureDataUrl = NULL

(***************************************************************************)
(* Cropping: properties                                                    *)
(***************************************************************************)
\* The selection the timer callback finds is narrower or lower, in source
\* pixels, than 10 (fixed-threshold revision) or 1 (the others).
SelectionBelowMinimum ==
  /\ originalImageForCrop # NULL
  /\ croppingCanvas # NULL
  /\ cropStartPos # NULL
  /\ cropEndPos # NULL
  /\ LET least == IF variant = "threshold" THEN 10 ELSE 1
         iw == originalImageForCrop.width
         cw == croppingCanvas.width
     IN  \/ Abs(cropStartPos.x - cropEndPos.x) * iw < least * cw
         \/ Abs(cropStartPos.y - cropEndPos.y) * iw < least * cw

\* C16: when the timer callback of applyCropAndSave finds the selection
\* below the minimum size, the call ends there: nothing of it goes on to
\* segmentation, the mask, placement mode and placed signatures are as they
\* were, and the cropping session stays open with its image and selection.
C16_SmallRegionRejected ==
  [][ (/\ lastOp'.op = "cropTimer"
       /\ events' = events + 1
       /\ SelectionBelowMinimum)
      => /\ UNCHANGED <<signatureDataUrl, trimmedSignatureSize,
                        isPlacingSignature, placedSignatures>>
         /\ UNCHANGED <<isCropping, croppingImageUrl, originalImageForCrop,
                        croppingCanvas, cropStartPos, cropEndPos>>
         /\ isCropping'
         /\ \E i \in 1..Len(cropJobs) :
              /\ cropJobs[i].pc = "timer"
              /\ cropJobs' = SubSeq(cropJobs, 1, i - 1)
                               \o SubSeq(cropJobs, i + 1, Len(cropJobs)) ]_vars

\* The fixed-threshold revision has just turned down a selection that has
\* some width and height, with a mask active and an instance placed.
C16_Witness ==
  /\ lastOp.op = "cropTimer"
  /\ lastOp.arg = "RegionTooSmall"
  /\ lastOp.x > 0
  /\ lastOp.y > 0
  /\ variant = "threshold"
  /\ isCropping
  /\ originalImageForCrop # NULL
  /\ ActiveMask
  /\ placedSignatures # <<>>

(***************************************************************************)
(* Extraction errors                                                       *)
(***************************************************************************)
ExtractionFailed ==
  /\ lastOp.op = "finalizeSignature"
  /\ lastOp.arg \in {"EmptyContent", "DecodeFailure"}

\* C17: a finalizeSignature that fails (EmptyContent or decode failure)
\* leaves the active mask, placement mode and every placed signature as
\* they were, and ends the attempt: the image leaves the work in progress
\* and nothing is queued in its place.
C17_ExtractionErrorIsTerminal ==
  [][ (ExtractionFailed' /\ events' = events + 1) =>
        /\ UNCHANGED <<signatureDataUrl, trimmedSignatureSize,
                       isPlacingSignature, placedSignatures>>
        /\ \E i \in 1..Len(pendingFinalize) :
             pendingFinalize' = SubSeq(pendingFinalize, 1, i - 1)
                                  \o SubSeq(pendingFinalize, i + 1,
                                            Len(pendingFinalize)) ]_vars

\* An extraction has just failed for want of content while a mask is
\* active and an instance is placed.
C17_Witness ==
  /\ lastOp.op = "finalizeSignature"
  /\ lastOp.arg = "EmptyContent"
  /\ ActiveMask
  /\ placedSignatures # <<>>

(***************************************************************************)
(* Segmentation: properties                                                *)
(***************************************************************************)
\* The image pass k was given.
PassInput(k) == IF k = 1 THEN trimInput ELSE trimResult.passes[k - 1]

Segmented == trimResult # NULL /\ "passes" \in DOMAIN trimResult

\* C18: for an image whose opaque pixels all fall in one colour bucket a
\* background/ink pair is still produced and segmentation proceeds with it.
C18_ClassifyAlwaysReturnsPair ==
  (Segmented /\ Len(Histogram(trimInput)) = 1) =>
     /\ trimResult.classification # NULL
     /\ trimResult.passes[1].data =
          [i \in 1..Len(trimInput.data) |->
             segmentPixel(trimInput.data[i],
                          trimResult.classification.dominantDark.color,
                          trimResult.classification.dominantLight.color)]

\* C19: each pass returns an image of the width and height of the one it
\* was given, with alpha 0 wherever the given pixel's alpha is below 25; so
\* a pixel that is fully transparent after one pass is so after the next.
C19_SegmentKeepsSizeAndTransparency ==
  Segmented =>
    \A k \in 1..Len(trimResult.passes) :
      LET given == PassInput(k)
          out == trimResult.passes[k]
      IN  /\ out.width = given.width
          /\ out.height = given.height
          /\ Len(out.data) = Len(given.data)
          /\ \A i \in 1..Len(given.data) :
               given.data[i][4] < 25 => out.data[i][4] = 0
          /\ k > 1 =>
               \A i \in 1..Len(given.data) :
                 trimResult.passes[k - 1].data[i][4] = 0
                   => out.data[i][4] = 0

\* A second pass that got as far as step 3 has left a transparent pixel of
\* the first pass transparent, next to a pixel it kept.
C19_Witness ==
  /\ Segmented
  /\ Len(trimResult.passes) = 2
  /\ Classification(trimResult.passes[1]) # NULL
  /\ \E i, j \in 1..Len(trimInput.data) :
       /\ trimResult.passes[1].data[i][4] = 0
       /\ trimResult.passes[2].data[i][4] = 0
       /\ trimResult.passes[2].data[j][4] > 0

\* C20: in every pass that classifies, a pixel of alpha 25 or more that the
\* background rule does not take and whose distance to the ink colour is at
\* most 45 is in the output with its own r, g, b and alpha.
C20_InkPixelsUnchanged ==
  Segmented =>
    \A k \in 1..Len(trimResult.passes) :
      LET given == PassInput(k)
          found == Classification(given)
      IN  found # NULL =>
            \A i \in 1..Len(given.data) :
              LET px == given.data[i]
                  dInk == colorDistanceSq(Rgb(px), found.dominantDark.color)
                  dBg == colorDistanceSq(Rgb(px), found.dominantLight.color)
              IN  (/\ px[4] >= 25
                   /\ ~(dBg < dInk /\ dBg < 135 * 135)
                   /\ dInk <= 45 * 45)
                    => trimResult.passes[k].data[i] = px

\* A pixel near the ink colour, but not of it, has come through the first
\* pass as it was, next to a pixel the pass made transparent.
C20_Witness ==
  /\ Segmented
  /\ trimResult.classification # NULL
  /\ trimResult.classification.dominantDark.color = Rgb(Black)
  /\ \E i, j \in 1..Len(trimInput.data) :
       /\ trimInput.data[i] = NearBlack
       /\ trimResult.passes[1].data[i] = NearBlack
       /\ trimInput.data[j] = White
       /\ trimResult.passes[1].data[j][4] = 0


(***************************************************************************)
(* Black ink on white paper                                                *)
(***************************************************************************)
\* Every pixel of the image is opaque white or opaque black, and it has
\* both.
BlackOnWhite(img) ==
  /\ \A i \in 1..Len(img.data) : img.data[i] \in {White, Black}
  /\ \E i \in 1..Len(img.data) : img.data[i] = White
  /\ \E i \in 1..Len(img.data) : img.data[i] = Black

\* The columns and rows of the image that hold a black pixel.
BlackColumns(img) ==
  {x \in 0..(img.width - 1) :
     \E y \in 0..(img.height - 1) : img.data[(y * img.width + x) + 1] = Black}
BlackRows(img) ==
  {y \in 0..(img.height - 1) :
     \E x \in 0..(img.width - 1) : img.data[(y * img.width + x) + 1] = Black}
Least(S) == CHOOSE n \in S : \A m \in S : n <= m
Greatest(S) == CHOOSE n \in S : \A m \in S : n >= m

\* C21: for an opaque image of pure white and pure black pixels, both
\* present, the background is white and the ink black; the segmented image
\* has the size of the input, alpha 0 at every white pixel and every black
\* pixel as it was; and trimming it gives the bounding box of the black
\* pixels, with that box's width over its height as aspect ratio.
C21_BlackOnWhitePipeline ==
  (Segmented /\ BlackOnWhite(trimInput)) =>
    LET out == trimResult.passes[1]
        minX == Least(BlackColumns(trimInput))
        minY == Least(BlackRows(trimInput))
        w == Greatest(BlackColumns(trimInput)) - minX + 1
        h == Greatest(BlackRows(trimInput)) - minY + 1
    IN  /\ trimResult.classification # NULL
        /\ trimResult.classification.dominantLight.color = Rgb(White)
        /\ trimResult.classification.dominantDark.color = Rgb(Black)
        /\ out.width = trimInput.width
        /\ out.height = trimInput.height
        /\ Len(out.data) = Len(trimInput.data)
        /\ \A i \in 1..Len(trimInput.data) :
             IF trimInput.data[i] = White THEN out.data[i][4] = 0
             ELSE out.data[i] = Black
        /\ trimResult.trimmed # NULL =>
             /\ trimResult.trimmed.error = ""
             /\ trimResult.trimmed.size =
                  [width |-> w, height |-> h, aspectRatio |-> Rat(w, h)]
             /\ trimResult.trimmed.dataUrl.width = w
             /\ trimResult.trimmed.dataUrl.height = h
             /\ \A x \in 0..(w - 1), y \in 0..(h - 1) :
                  trimResult.trimmed.dataUrl.data[(y * w + x) + 1] =
                    out.data[((minY + y) * out.width + minX + x) + 1]

\* The 10 x 10 example has been segmented and trimmed to its 2 x 2 square.
C21_Witness ==
  /\ Segmented
  /\ trimInput = SquareOnPaper
  /\ trimResult.trimmed # NULL
  /\ trimResult.trimmed.size =
       [width |-> 2, height |-> 2, aspectRatio |-> <<1, 1>>]
  /\ trimResult.trimmed.dataUrl.data = <<Black, Black, Black, Black>>


(***************************************************************************)
(* Classification: properties                                              *)
(***************************************************************************)
\* The buckets of the image given to the first pass, and those of them
\* above and not above the luminance threshold.
Buckets == {Histogram(trimInput)[n] : n \in 1..Len(Histogram(trimInput))}
LightBuckets == {e \in Buckets : e.luminance > 128000}
DarkBuckets == {e \in Buckets : e.luminance <= 128000}

\* C29: when the histogram has buckets on both sides of luminance 128, the
\* background is a bucket of the light side that no bucket of that side
\* outnumbers, and the ink a bucket of the dark side that no bucket of that
\* side outnumbers.
C29_DominantBucketPerSide ==
  (Segmented /\ LightBuckets # {} /\ DarkBuckets # {}) =>
    /\ trimResult.classification # NULL
    /\ trimResult.classification.dominantLight \in LightBuckets
    /\ \A e \in LightBuckets :
         e.count <= trimResult.classification.dominantLight.count
    /\ trimResult.classification.dominantDark \in DarkBuckets
    /\ \A e \in DarkBuckets :
         e.count <= trimResult.classification.dominantDark.count

\* The background chosen is the second light bucket of the image, which
\* outnumbers the first.
C29_Witness ==
  /\ Segmented
  /\ DarkBuckets # {}
  /\ trimResult.classification # NULL
  /\ trimResult.classification.dominantLight.count = 2
  /\ \E e \in LightBuckets :
       /\ e.count = 1
       /\ e = Histogram(trimInput)[1]

\* The two buckets the fallback takes: the first two of the buckets in
\* descending order of count, buckets of equal count in histogram order.
Ranked(n) ==
  CHOOSE e \in Buckets :
    Cardinality({f \in Buckets :
                   \/ f.count > e.count
                   \/ /\ f.count = e.count
                      /\ \E j, k \in 1..Len(Histogram(trimInput)) :
                           /\ j < k
                           /\ Histogram(trimInput)[j] = f
                           /\ Histogram(trimInput)[k] = e}) = n - 1

\* C30: when one side of the luminance split is empty (and there are two
\* buckets at least), the two most frequent buckets are taken, the lighter
\* as background and the darker as ink; of two with equal luminance the
\* first-ranked is the background and the other the ink.
C30_FallbackLighterIsBackground ==
  (/\ Segmented
   /\ Cardinality(Buckets) >= 2
   /\ (LightBuckets = {} \/ DarkBuckets = {})) =>
    /\ trimResult.classification # NULL
    /\ IF Ranked(1).luminance >= Ranked(2).luminance
       THEN /\ trimResult.classification.dominantLight = Ranked(1)
            /\ trimResult.classification.dominantDark = Ranked(2)
       ELSE /\ trimResult.classification.dominantLight = Ranked(2)
            /\ trimResult.classification.dominantDark = Ranked(1)


(***************************************************************************)
(* Shared aspect ratio                                                     *)
(***************************************************************************)
\* C22: whenever the store is non-empty there is an active mask, and every
\* instance's aspectRatio is the mask's (trimmedSignatureSize.aspectRatio).
C22_SharedAspectRatio ==
  placedSignatures # <<>> =>
    /\ trimmedSignatureSize # NULL
    /\ \A k \in 1..Len(placedSignatures) :
         placedSignatures[k].aspectRatio = trimmedSignatureSize.aspectRatio

\* A mask replacement has rewritten the instances of a non-empty store.
C22_Witness ==
  /\ lastOp.op = "finalizeSignature"
  /\ lastOp.arg = "ok"
  /\ placedSignatures # <<>>


(***************************************************************************)
(* Mask replacement and gestures                                           *)
(***************************************************************************)
\* C23: the bulk rewrite of finalizeSignature never lands while an
\* instance is being dragged or resized: in the state a successful
\* finalizeSignature leaves (it does not touch the gesture signals), both
\* draggedSignature and resizingSignature are null.
C23_MaskReplacementBetweenGestures ==
  (lastOp.op = "finalizeSignature" /\ lastOp.arg = "ok") =>
    (draggedSignature = NULL /\ resizingSignature = NULL)


(***************************************************************************)
(* End of a gesture                                                        *)
(***************************************************************************)
\* No instance is being dragged or resized.
Idle == draggedSignature = NULL /\ resizingSignature = NULL

\* C24: every onEndInteraction leaves the store Idle, and every
\* pointer-move handled while the store is Idle leaves placedSignatures as
\* it was.
C24_PointerUpEndsGesture ==
  [][ events' = events + 1 =>
        /\ lastOp'.op = "onEndInteraction" => Idle'
        /\ (lastOp'.op = "onDrag" /\ Idle) =>
             placedSignatures' = placedSignatures ]_vars

\* A pointer-move after the pointer-up that ended a gesture on an instance.
C24_Witness ==
  /\ lastOp.op = "onDrag"
  /\ lastOp.arg = "idle"
  /\ interactionOccurred
  /\ pendingResets > 0
  /\ placedSignatures # <<>>


(***************************************************************************)
(* Click after a gesture                                                   *)
(***************************************************************************)
\* The pointer-up of a drag or resize was the last event, or the last but
\* one with the deferred reset of interactionOccurred after it.
GestureJustEnded ==
  /\ lastOp.op \in {"onEndInteraction", "resetInteractionOccurred"}
  /\ lastOp.arg \in {"drag", "resize"}

\* C25: the click that follows the pointer-up of a drag or resize leaves
\* placedSignatures as it was, whether the deferred reset of
\* interactionOccurred runs after the click or before it.
C25_ClickAfterGestureIgnored ==
  [][ (events' = events + 1 /\ GestureJustEnded
       /\ lastOp'.op = "placeSignatureOnClick") =>
        placedSignatures' = placedSignatures ]_vars


(***************************************************************************)
(* Placement during a gesture                                              *)
(***************************************************************************)
\* C26: in every state in which an instance is being dragged or resized,
\* interactionOccurred is true, and a click handled in such a state leaves
\* placedSignatures as it was.
C26_NoPlacementDuringGesture ==
  [][ /\ ~Idle' => interactionOccurred'
      /\ (events' = events + 1 /\ ~Idle
          /\ lastOp'.op = "placeSignatureOnClick") =>
           placedSignatures' = placedSignatures ]_vars


(***************************************************************************)
(* Frame of a gesture pointer-move                                         *)
(***************************************************************************)
\* What a pointer-move of the gesture `kind` may not change of its target.
KeptByGesture(kind, before, after) ==
  /\ after.id = before.id
  /\ after.page = before.page
  /\ after.aspectRatio = before.aspectRatio
  /\ IF kind = "drag"
     THEN after.width = before.width /\ after.height = before.height
     ELSE after.position = before.position

\* C27: a pointer-move handled during a drag or resize keeps the store's
\* length and order and changes at most one instance, the target, of which
\* a drag keeps width, height, aspectRatio and page, and a resize position,
\* aspectRatio and page.
C27_GestureMoveFrame ==
  [][ (events' = events + 1 /\ lastOp'.op = "onDrag"
       /\ lastOp'.arg \in {"drag", "resize"}) =>
        /\ Len(placedSignatures') = Len(placedSignatures)
        /\ \E t \in 0..Len(placedSignatures) :
             \A k \in 1..Len(placedSignatures) :
                IF k = t
                THEN KeptByGesture(lastOp'.arg, placedSignatures[k],
                                   placedSignatures'[k])
                ELSE placedSignatures'[k] = placedSignatures[k] ]_vars


(***************************************************************************)
(* Export of a page that is not the one displayed                          *)
(***************************************************************************)
\* The scale factor of a page from its own metrics: its rendered width
\* over the width it is displayed at.
OwnScaleFactor(pageNum) ==
  RDiv(ViewportWidth(pageNum, pdfRenderScale),
       Int2Rat(pageOffsetWidth[pageNum]))

\* C28: the rectangle drawn for an instance of page p is toDocumentRect of
\* its geometry with the scale factor and point height of page p itself,
\* whichever page the canvas shows while the export runs.
C28_ExportUsesOwnPageMetrics ==
  [][ \A i \in 1..MaxExports :
        DrawsGroup(i) =>
          LET group == exportJobs[i].groups[1]
              new == NewDraws(i)
          IN  /\ Len(new) = Len(group.signatures)
              /\ \A k \in 1..Len(new) :
                   new[k].rect =
                     toDocumentRect(RectOf(group.signatures[k]),
                                    OwnScaleFactor(group.page),
                                    pdfRenderScale,
                                    PageHeightPoints(group.page)) ]_vars


(***************************************************************************)
(* Segmentation: the rules of step 3                                       *)
(***************************************************************************)
\* C31: in every pass that classifies, a pixel of alpha 25 or more that is
\* nearer to the background than to the ink and less than 135 from the
\* background is output with alpha 0, whatever its distance to the ink.
C31_BackgroundRuleFirst ==
  Segmented =>
    \A k \in 1..Len(trimResult.passes) :
      LET given == PassInput(k)
          found == Classification(given)
      IN  found # NULL =>
            \A i \in 1..Len(given.data) :
              LET px == given.data[i]
                  dInk == colorDistanceSq(Rgb(px), found.dominantDark.color)
                  dBg == colorDistanceSq(Rgb(px), found.dominantLight.color)
              IN  (px[4] >= 25 /\ dBg < dInk /\ dBg < 135 * 135)
                    => trimResult.passes[k].data[i][4] = 0

\* The first pass has made transparent a visible pixel that lies within
\* the opaque threshold of the ink colour, because the background is nearer.
C31_Witness ==
  /\ Segmented
  /\ trimResult.classification # NULL
  /\ \E i \in 1..Len(trimInput.data) :
       LET px == trimInput.data[i]
           dInk == colorDistanceSq(Rgb(px),
                                   trimResult.classification.dominantDark.color)
           dBg == colorDistanceSq(Rgb(px),
                                  trimResult.classification.dominantLight.color)
       IN  /\ px[4] >= 25
           /\ dBg < dInk
           /\ dInk <= 45 * 45
           /\ trimResult.passes[1].data[i][4] = 0


(***************************************************************************)
(* Segmentation: the output pixels                                         *)
(***************************************************************************)
\* The pair pass k worked with, or NULL.
PassClassification(k) ==
  IF k = 1 THEN trimResult.classification ELSE Classification(PassInput(k))

\* C32: every output pixel has an alpha between 0 and its source pixel's;
\* a pixel 90 or more from the ink colour gets alpha 0; an output pixel of
\* alpha above 0 has the source's r, g and b, and one of alpha 0 is
\* (0, 0, 0, 0).
C32_OutputPixels ==
  Segmented =>
    \A k \in 1..Len(trimResult.passes) :
      LET given == PassInput(k)
          out == trimResult.passes[k]
          found == PassClassification(k)
      IN  \A i \in 1..Len(given.data) :
            /\ out.data[i][4] >= 0
            /\ out.data[i][4] <= given.data[i][4]
            /\ (found # NULL
                /\ colorDistanceSq(Rgb(given.data[i]),
                                   found.dominantDark.color) >= 90 * 90)
                 => out.data[i][4] = 0
            /\ out.data[i][4] > 0 => Rgb(out.data[i]) = Rgb(given.data[i])
            /\ out.data[i][4] = 0 => out.data[i] = <<0, 0, 0, 0>>

CurrentPageOfDoc == [doc |-> pdfDoc, page |-> currentPage]

\* C34: with a document loaded and no render in flight, pdfPage holds the
\* page numbered currentPage and the canvas shows no other page, whatever
\* the navigations were and in whatever order the renders completed.
C34_RenderedPageIsCurrent ==
  (pdfDoc # NULL /\ pendingRenders = <<>>) =>
    /\ pdfPage = CurrentPageOfDoc
    /\ canvasPage \in {NULL, CurrentPageOfDoc}

(***************************************************************************)
(* The loaded document is the selected file's                              *)
(***************************************************************************)
\* A load fails while a file that can be decoded is selected: the load is
\* of a file selected earlier.
EarlierLoadFails ==
  /\ events' # events
  /\ lastOp'.op = "loadPdf"
  /\ lastOp'.arg = "failed"
  /\ pdfFile # NULL
  /\ pdfFile.valid

\* C35: with no load in flight, a loaded document is the one decoded from
\* the selected file, in whatever order overlapping loads completed or
\* failed; and the failure of an earlier file's load leaves the later
\* selected file and its document as they are.
C35_LoadedIsSelected ==
  /\ []((pendingLoads = <<>> /\ pdfFile # NULL /\ pdfDoc # NULL)
          => pdfDoc = pdfFile)
  /\ [][EarlierLoadFails => UNCHANGED <<pdfFile, pdfDoc, totalPages>>]_vars

(***************************************************************************)
(* isLoading                                                               *)
(***************************************************************************)
\* A document load, a page render or the processing of a signature image
\* is in progress.
InProgress ==
  \/ pendingLoads # <<>>
  \/ pendingRenders # <<>>
  \/ pendingFinalize # <<>>

\* C36: isLoading is true exactly while an asynchronous operation is in
\* progress, however the operations overlap.
C36_LoadingWhileInProgress == isLoading <=> InProgress

(***************************************************************************)
(* Placements and placement mode need a mask                               *)
(***************************************************************************)
\* C37: whenever the store holds an instance or placement mode is on, there
\* is an active mask: signatureDataUrl and trimmedSignatureSize are both
\* non-null.
C37_MaskWhilePlacing ==
  (placedSignatures # <<>> \/ isPlacingSignature) =>
    (signatureDataUrl # NULL /\ trimmedSignatureSize # NULL)

\* Placement mode has just been switched off with an instance in the
\* store.
C37_Witness ==
  /\ lastOp.op = "togglePlacementMode"
  /\ ~isPlacingSignature
  /\ placedSignatures # <<>>
  /\ signatureDataUrl # NULL

(***************************************************************************)
(* Page numbers stay within the document                                   *)
(***************************************************************************)
\* goToPreviousPage on page 1, or goToNextPage on the last page.
NavigationAtEdge ==
  /\ events' # events
  /\ \/ lastOp'.op = "goToPreviousPage" /\ currentPage = 1
     \/ /\ lastOp'.op = "goToNextPage"
        /\ pdfDoc # NULL
        /\ currentPage = totalPages

\* C38: currentPage is at least 1 and, with a document loaded, at most
\* totalPages, the number of its pages; every instance of the store is on
\* a page within 1..totalPages; and goToPreviousPage on page 1 and
\* goToNextPage on the last page change neither the document's state nor
\* the store, and start no render.
C38_PagesInRange ==
  /\ [](currentPage >= 1)
  /\ [](pdfDoc # NULL =>
          /\ totalPages = pdfDoc.numPages
          /\ currentPage <= totalPages
          /\ \A i \in 1..Len(placedSignatures) :
               placedSignatures[i].page \in 1..totalPages)
  /\ [][NavigationAtEdge =>
          UNCHANGED <<docVars, workVars, placedSignatures>>]_vars

(***************************************************************************)
(* GeminiService.removeBackground: calls and outcomes                      *)
(***************************************************************************)
\* The invocation was given a URL that removeBackground refuses, or the
\* service has no client.
GeminiRefuses ==
  \/ ~gemini.ai
  \/ ~StartsWith(gemini.input, DataImage)
  \/ \A k \in 1..Len(gemini.input) : gemini.input[k] # ","
  \/ \E k \in 1..Len(gemini.input) :
       /\ gemini.input[k] = ","
       /\ \A j \in 1..(k - 1) : gemini.input[j] # ","
       /\ (k = Len(gemini.input) \/ gemini.input[k + 1] = ",")

====
